---- MODULE Spec2Model ----
(***************************************************************************)
(* Verification model of the passivbot forager trading engine:             *)
(*   src/src/passivbot_forager.py  (class Passivbot)                       *)
(*   src/src/exchanges/bitget.py   (class BitgetBot, the exchange adapter) *)
(*                                                                         *)
(* Prices and quantities are integers (price_step = qty_step = 1).         *)
(* Fractions of the configuration are kept exact as scaled integers:       *)
(* wallet_exposure_limit, unstuck_threshold and unstuck_close_pct in       *)
(* tenths, unstuck_ema_dist and price_distance_threshold in percent.       *)
(* A relative distance |x - y| / |y| is the pair <<|x - y|, |y|>> and two  *)
(* distances are compared by cross multiplication.                         *)
(***************************************************************************)
EXTENDS Integers, Sequences, FiniteSets, TLC

VARIABLES
    pc,                \* position of run_execution_loop / execute_to_exchange
    fin,               \* coroutines of the running asyncio.gather that returned
    config,            \* self.config["live"]
    forced_modes,      \* self.forced_modes[pside][symbol]
    active_symbols,    \* self.active_symbols (sorted list)
    live_configs,      \* self.live_configs[symbol][pside]
    positions,         \* self.positions[symbol][pside]
    balance,           \* self.balance
    tickers,           \* self.tickers[symbol]
    emas,              \* self.emas[pside][symbol], as [min, max]
    grid,              \* what pbr.calc_entries_* / calc_closes_* return now
    open_orders,       \* self.open_orders[symbol]
    fetched_positions, \* self.fetched_positions
    fetched_open_orders, \* self.fetched_open_orders
    ex_orders,         \* the exchange: resting orders, oldest first
    ex_positions,      \* the exchange: positions
    next_id,           \* the exchange: next order id
    to_cancel,         \* execute_to_exchange: local to_cancel
    to_create,         \* execute_to_exchange: local to_create
    executions,        \* execute_multiple: the tasks of the running batch
    composed,          \* calc_orders_to_cancel_and_create: local ideal_orders
    tick,              \* history: what the running tick has done so far
    start_orders,      \* history: the exchange's resting orders when the loop started
    faults,            \* history: number of requests that failed so far
    pnls,              \* self.pnls: realized PnL of the lookback window and the peak balance
    noisiness,         \* self.noisiness, as the symbols from most to least noisy
    eligible_symbols,  \* self.eligible_symbols
    bot,               \* self.forager_mode and config["bot"][pside]: n_positions, enabled
    events,            \* history: number of steps the other tasks have taken so far
    markets_dict,      \* self.markets_dict: the eligibility of each market that is a key
    ex_markets,        \* the exchange: what fetch_markets reports for each market
    ignored_symbols,   \* config["live"]["ignored_symbols"]
    now,               \* utc_ms(), in units of 5 seconds
    prev_minute,       \* run_execution_loop: local prev_minute
    recent_fill,       \* self.recent_fill
    history,           \* history: fills, errors and the end of the last tick, as the loop saw them
    restarts,          \* main: local restarts, the times of the failures of the last 24 hours
    maintainers,       \* self.maintainers: the state of each maintainer task
    connections,       \* the exchange connections ccp (websocket) and cca (REST)
    last_update_timestamps,\* self.last_update_timestamps, by maintainer
    maintain_thing,    \* the position of each maintain_thing task
    attempts,          \* history: when the last update call of each maintainer began and how it ended
    ex_candles,        \* the exchange's 1m candles of symbol A: ts, high, low, close
    ex_fills,          \* the exchange's fill history
    opened,            \* history: when the fill that opened each side of A happened
    hlcs_1m,           \* self.hlcs_1m
    fills,             \* self.pnls: the fills inside the lookback window
    trailing_prices,   \* self.trailing_prices
    trail_config,      \* pnls_max_lookback_days and whether the sides are trailing
    upd_timestamps,    \* self.upd_timestamps
    pnls_call,         \* update_pnls: where the call is suspended, its age_limit and its local pnls_cache
    pnls_cache,        \* the file at self.pnls_cache_filepath
    oo_call,           \* update_open_orders: the response of fetch_open_orders and the ids added while it is suspended
    ws_log             \* history: the order updates the websocket delivered

vars == <<pc, fin, config, forced_modes, active_symbols, live_configs, positions,
          composed, start_orders, faults, balance, tickers, emas, grid, open_orders, fetched_positions,
          fetched_open_orders, ex_orders, ex_positions, next_id, to_cancel,
          to_create, executions, tick, pnls, noisiness, eligible_symbols, bot, events,
          markets_dict, ex_markets, ignored_symbols,
          now, prev_minute, recent_fill, history,
          restarts, maintainers, connections,
          last_update_timestamps, maintain_thing, attempts,
          ex_candles, ex_fills, opened, hlcs_1m, fills, trailing_prices, trail_config,
          upd_timestamps, pnls_call, pnls_cache,
          oo_call, ws_log>>

\* the variables of the market list
markets == <<markets_dict, ex_markets, ignored_symbols>>

\* the variables of the schedule of run_execution_loop
sched == <<now, prev_minute, recent_fill, history>>

\* the variables of main and of the tasks and connections of the bot
mainvars == <<restarts, maintainers, connections>>

\* the variables of the maintainer tasks
maint == <<last_update_timestamps, maintain_thing, attempts>>

\* the candles, the fills and the trailing extremes
trail == <<ex_candles, ex_fills, opened, hlcs_1m, fills, trailing_prices, trail_config>>

\* the update timestamps and the update_pnls call
updates == <<upd_timestamps, pnls_call, pnls_cache>>

\* the update_open_orders call and the websocket order updates
orderflow == <<oo_call, ws_log>>

----------------------------------------------------------------------------
(* Universe *)

Symbols == {"A", "B"}

\* sorted(...) over symbol names
SymbolOrder == <<"A", "B">>

PSides == <<"long", "short">>

PSideSet == {"long", "short"}

Modes == {"normal", "graceful_stop", "tp_only", "panic", "manual"}

\* Order tags produced by the grid functions and by calc_ideal_orders.
EntryTags == {"entry_initial_normal_long", "entry_grid_normal_long",
              "entry_initial_normal_short", "entry_grid_normal_short"}

CloseTags == {"close_grid_long", "close_grid_short",
              "panic_close_long", "panic_close_short",
              "unstuck_close_long", "unstuck_close_short"}

Tags == EntryTags \cup CloseTags

\* "long" in tag
TagHasLong(tag) ==
    tag \in {"entry_initial_normal_long", "entry_grid_normal_long", "close_grid_long",
             "panic_close_long", "unstuck_close_long"}

\* "close" in tag
TagHasClose(tag) == tag \in CloseTags

\* any(x in tag for x in ["initial", "unstuck"])
TagHasInitialOrUnstuck(tag) ==
    tag \in {"entry_initial_normal_long", "entry_initial_normal_short",
             "unstuck_close_long", "unstuck_close_short"}

\* pside in tag
TagHasPside(tag, pside) == IF pside = "long" THEN TagHasLong(tag) ELSE ~TagHasLong(tag)

\* Python's string order on the tags (tuples are compared field by field).
TagRank(tag) ==
    CASE tag = "close_grid_long" -> 1
      [] tag = "close_grid_short" -> 2
      [] tag = "entry_grid_normal_long" -> 3
      [] tag = "entry_grid_normal_short" -> 4
      [] tag = "entry_initial_normal_long" -> 5
      [] tag = "entry_initial_normal_short" -> 6
      [] tag = "panic_close_long" -> 7
      [] tag = "panic_close_short" -> 8
      [] tag = "unstuck_close_long" -> 9
      [] tag = "unstuck_close_short" -> 10

----------------------------------------------------------------------------
(* Numeric primitives *)

Abs(x) == IF x < 0 THEN -x ELSE x

Max(a, b) == IF a >= b THEN a ELSE b

Min(a, b) == IF a <= b THEN a ELSE b

\* round_up(n / d, 1): the smallest integer >= n / d, for n >= 0 and d > 0
CeilDiv(n, d) == (n + d - 1) \div d

\* round_dn(n / d, 1)
FloorDiv(n, d) == n \div d

\* calc_diff(x, y) = abs(x - y) / abs(y), as numerator and denominator
calc_diff(x, y) == <<Abs(x - y), Abs(y)>>

\* d1 < d2 for two relative distances
DiffLess(d1, d2) == d1[1] * d2[2] < d2[1] * d1[2]

DiffEq(d1, d2) == d1[1] * d2[2] = d2[1] * d1[2]

\* d > pct / 100
DiffAbovePct(d, pct) == d[1] * 100 > pct * d[2]

----------------------------------------------------------------------------
(* Market metadata (BitgetBot.set_market_specific_settings): the same for  *)
(* every symbol of the model.                                              *)

Market == [min_qty |-> 1, min_cost |-> 1, c_mult |-> 1]

\* calc_min_entry_qty(price, False, c_mult, qty_step, min_qty, min_cost)
calc_min_entry_qty(price) ==
    Max(Market.min_qty, CeilDiv(Market.min_cost, price * Market.c_mult))

\* self.tickers[symbol]["last"]
get_last_price(symbol) == tickers[symbol].last

----------------------------------------------------------------------------
(* Sequences *)

\* [x for x in seq if x in keep]
SelectSeqBy(seq, keep) ==
    CHOOSE kept \in {SelectSeq(seq, LAMBDA x : x \in k) : k \in {keep}} : TRUE

\* the function f on 1..n as the tuple of its values
AsTuple(f) == f \o <<>>


\* sorted(seq) under the order Less: Python's sort is stable, so an element
\* comes after the elements that are less and after the earlier elements
\* that are not greater
StableSort(seq, Less(_, _)) ==
    LET Places(s) == AsTuple([j \in 1..Len(s) |->
                                Cardinality({k \in 1..Len(s) :
                                               \/ Less(s[k], s[j])
                                               \/ k < j /\ ~Less(s[j], s[k])}) + 1])
        Placed(s, at) ==
            AsTuple([i \in 1..Len(s) |-> s[CHOOSE j \in 1..Len(s) : at[j] = i]])
    IN CHOOSE sorted \in
           UNION {{Placed(s, at) : at \in {Places(s)}} : s \in {AsTuple(seq)}} : TRUE

Range(seq) == {seq[i] : i \in 1..Len(seq)}

\* seq[:n]
Take(seq, n) == SubSeq(seq, 1, Min(Len(seq), n))

RECURSIVE ConcatOver(_, _)
\* the concatenation of f[k] for k in the list ks
ConcatOver(ks, f) ==
    IF ks = <<>> THEN <<>> ELSE f[Head(ks)] \o ConcatOver(Tail(ks), f)

----------------------------------------------------------------------------
(* State queries *)

has_position(symbol, pside) == positions[symbol][pside].size # 0

is_enabled(symbol, pside) ==
    /\ live_configs[symbol][pside].wallet_exposure_limit > 0
    /\ live_configs[symbol][pside].n_positions > 0

IsActive(symbol) == symbol \in Range(active_symbols)

----------------------------------------------------------------------------
(* calc_ideal_orders: the per-side switch on the mode *)

PanicClose(symbol, pside) ==
    IF pside = "long"
    THEN [qty |-> -Abs(positions[symbol]["long"].size),
          price |-> tickers[symbol].ask,
          tag |-> "panic_close_long"]
    ELSE [qty |-> Abs(positions[symbol]["short"].size),
          price |-> tickers[symbol].bid,
          tag |-> "panic_close_short"]

\* hedge_mode is True
DoSide(symbol, pside) == is_enabled(symbol, pside) \/ has_position(symbol, pside)

SideOrders(symbol, pside) ==
    IF live_configs[symbol][pside].mode = "panic"
    THEN IF has_position(symbol, pside) THEN <<PanicClose(symbol, pside)>> ELSE <<>>
    ELSE IF live_configs[symbol][pside].mode = "graceful_stop"
            /\ ~has_position(symbol, pside)
    THEN <<>>
    ELSE IF DoSide(symbol, pside)
    THEN grid[symbol][pside].entries \o grid[symbol][pside].closes
    ELSE <<>>

\* ideal_orders before the unstuck replacement (a symbol that is not active has no entry)
ComposedOrders ==
    [symbol \in Symbols |->
        IF IsActive(symbol)
        THEN SideOrders(symbol, "long") \o SideOrders(symbol, "short")
        ELSE <<>>]

----------------------------------------------------------------------------
(* calc_unstucking_close *)

\* variant: every position counts as stuck
IsStuck_any(symbol, pside) == positions[symbol][pside].size # 0

\* pbr.calc_wallet_exposure(c_mult, balance, size, price) / wallet_exposure_limit
\*     > unstuck_threshold, with the limit and the threshold in tenths
IsStuck(symbol, pside) ==
    /\ has_position(symbol, pside)
    /\ \/ live_configs[symbol][pside].wallet_exposure_limit = 0
       \/ Abs(positions[symbol][pside].size) * positions[symbol][pside].price
            * Market.c_mult * 100
          > live_configs[symbol][pside].unstuck_threshold
            * live_configs[symbol][pside].wallet_exposure_limit * balance

\* calc_pprice_diff(pside, pprice, last): the gap between position price and last price
calc_pprice_diff(pside, pprice, last) == calc_diff(pprice, last)

StuckKey(sp) ==
    calc_pprice_diff(sp.pside, positions[sp.symbol][sp.pside].price,
                     tickers[sp.symbol].last)

\* for symbol in self.positions: for pside in ["long", "short"]: ... append
StuckCandidates ==
    LET all == <<[symbol |-> "A", pside |-> "long"], [symbol |-> "A", pside |-> "short"],
                 [symbol |-> "B", pside |-> "long"], [symbol |-> "B", pside |-> "short"]>>
    IN SelectSeqBy(all, {sp \in Range(all) : IsStuck(sp.symbol, sp.pside)})

\* variant: the stuck positions stay in the order they were found
InsertStuck_appended(x, sorted) == sorted \o <<x>>

RECURSIVE InsertStuck(_, _)
\* x placed after every element whose key is not greater (list.sort is stable)
InsertStuck(x, sorted) ==
    IF sorted = <<>> THEN <<x>>
    ELSE IF DiffLess(StuckKey(x), StuckKey(Head(sorted)))
         THEN <<x>> \o sorted
         ELSE <<Head(sorted)>> \o InsertStuck(x, Tail(sorted))

RECURSIVE SortStuck(_, _)
SortStuck(todo, sorted) ==
    IF todo = <<>> THEN sorted
    ELSE SortStuck(Tail(todo), InsertStuck(Head(todo), sorted))

\* stuck_positions.sort(key=lambda x: x[2])
stuck_positions == SortStuck(StuckCandidates, <<>>)

UnstuckClosePrice(symbol, pside) ==
    IF pside = "long"
    THEN Max(tickers[symbol].ask,
             CeilDiv(emas[pside][symbol].max
                       * (100 + live_configs[symbol][pside].unstuck_ema_dist), 100))
    ELSE Min(tickers[symbol].bid,
             FloorDiv(emas[pside][symbol].min
                        * (100 - live_configs[symbol][pside].unstuck_ema_dist), 100))

\* min(abs(size), max(calc_min_entry_qty(...), round_dn(cost_to_qty(
\*     balance * wallet_exposure_limit * unstuck_close_pct, close_price, c_mult), qty_step)))
UnstuckCloseQty(symbol, pside, close_price) ==
    Min(Abs(positions[symbol][pside].size),
        Max(calc_min_entry_qty(close_price),
            FloorDiv(balance * live_configs[symbol][pside].wallet_exposure_limit
                       * live_configs[symbol][pside].unstuck_close_pct,
                     100 * close_price * Market.c_mult)))

\* [x for x in ideal_orders[symbol] if "close" in x[2] and pside in x[2]]
IdealCloses(ideal_orders, symbol, pside) ==
    SelectSeqBy(ideal_orders[symbol],
                {x \in Range(ideal_orders[symbol]) :
                    TagHasClose(x.tag) /\ TagHasPside(x.tag, pside)})

NoUnstuck == [raised |-> FALSE, symbol |-> "", close |-> [qty |-> 0, price |-> 0, tag |-> ""]]

RECURSIVE UnstuckWalk(_, _)
\* for symbol, pside, _ in stuck_positions: the first candidate that returns, or raises.
\* The short branch reads ideal_closes[0]["price"] on a tuple, which raises TypeError.
UnstuckWalk(stuck, ideal_orders) ==
    IF stuck = <<>> THEN NoUnstuck
    ELSE LET symbol == Head(stuck).symbol
             pside == Head(stuck).pside
             close_price == UnstuckClosePrice(symbol, pside)
             ideal_closes == IdealCloses(ideal_orders, symbol, pside)
             close_qty == UnstuckCloseQty(symbol, pside, close_price)
         IN IF pside = "long"
            THEN IF ideal_closes = <<>> \/ close_price >= ideal_closes[1].price
                 THEN UnstuckWalk(Tail(stuck), ideal_orders)
                 ELSE IF close_qty # 0
                 THEN [raised |-> FALSE, symbol |-> symbol,
                       close |-> [qty |-> -close_qty, price |-> close_price,
                                  tag |-> "unstuck_close_long"]]
                 ELSE UnstuckWalk(Tail(stuck), ideal_orders)
            ELSE IF ideal_closes = <<>>
                 THEN UnstuckWalk(Tail(stuck), ideal_orders)
                 ELSE [raised |-> TRUE, symbol |-> symbol, close |-> NoUnstuck.close]

calc_unstucking_close(ideal_orders) == UnstuckWalk(stuck_positions, ideal_orders)

\* variant: every stuck long position that qualifies gets its unstuck close
WithUnstuck_each(ideal_orders) ==
    [s \in Symbols |->
        LET u == UnstuckWalk(<<[symbol |-> s, pside |-> "long"]>>, ideal_orders)
        IN IF IsStuck(s, "long") /\ u.close.qty # 0
           THEN SelectSeqBy(ideal_orders[s],
                            {x \in Range(ideal_orders[s]) : ~TagHasClose(x.tag)})
                \o <<u.close>>
           ELSE ideal_orders[s]]

\* ideal_orders after the unstuck replacement
WithUnstuck(ideal_orders) ==
    LET u == calc_unstucking_close(ideal_orders)
    IN IF u.raised \/ u.close.qty = 0 THEN ideal_orders
       ELSE [ideal_orders EXCEPT ![u.symbol] =
                SelectSeqBy(ideal_orders[u.symbol],
                            {x \in Range(ideal_orders[u.symbol]) : ~TagHasClose(x.tag)})
                \o <<u.close>>]

----------------------------------------------------------------------------
(* calc_ideal_orders: distance filter, duplicate filter, formatting *)

\* (pprice_diff, order) < (pprice_diff', order'): Python's tuple order
TupleLess(symbol, x, y) ==
    LET dx == calc_diff(x.price, tickers[symbol].last)
        dy == calc_diff(y.price, tickers[symbol].last)
    IN \/ DiffLess(dx, dy)
       \/ /\ DiffEq(dx, dy)
          /\ \/ x.qty < y.qty
             \/ x.qty = y.qty /\ x.price < y.price
             \/ x.qty = y.qty /\ x.price = y.price /\ TagRank(x.tag) < TagRank(y.tag)

\* sorted(with_pprice_diff), the tuples of todo after those of sorted
SortTuples(symbol, todo, sorted) ==
    StableSort(sorted \o todo, LAMBDA x, y : TupleLess(symbol, x, y))

\* determine_side_from_order_tuple: positive qty buys, negative qty sells
determine_side_from_order_tuple(order) == IF order.qty > 0 THEN "buy" ELSE "sell"

\* seen_key = str(abs(order[0])) + str(order[1]); on integral values the
\* concatenation "q.0p.0" determines q and p
SeenKey(order) == <<Abs(order.qty), order.price>>

\* variant: the formatted order is never flagged reduce_only
FormatOrder_unflagged(symbol, order) ==
    [symbol |-> symbol,
     side |-> determine_side_from_order_tuple(order),
     position_side |-> IF TagHasLong(order.tag) THEN "long" ELSE "short",
     qty |-> Abs(order.qty),
     price |-> order.price,
     reduce_only |-> FALSE,
     custom_id |-> order.tag]

FormatOrder(symbol, order) ==
    [symbol |-> symbol,
     side |-> determine_side_from_order_tuple(order),
     position_side |-> IF TagHasLong(order.tag) THEN "long" ELSE "short",
     qty |-> Abs(order.qty),
     price |-> order.price,
     reduce_only |-> TagHasClose(order.tag),
     custom_id |-> order.tag]

\* variant: an order of any tag is skipped when it is far from the last price
DroppedByDistance_any(symbol, order) ==
    \/ order.qty = 0
    \/ DiffAbovePct(calc_diff(order.price, tickers[symbol].last),
                    config.price_distance_threshold)

\* the order is skipped before the duplicate filter
DroppedByDistance(symbol, order) ==
    \/ order.qty = 0
    \/ /\ TagHasInitialOrUnstuck(order.tag)
       /\ DiffAbovePct(calc_diff(order.price, tickers[symbol].last),
                       config.price_distance_threshold)

\* for pprice_diff, order in sorted(with_pprice_diff): ...
\* seen holds the keys of the orders kept so far, which are the keys of the
\* orders so far that were not skipped before the duplicate filter
FilterWalk(symbol, todo, seen) ==
    LET Reaches(s, i) == ~DroppedByDistance(symbol, s[i])
        SeenAt(s, i) ==
            seen \cup {SeenKey(s[j]) : j \in {k \in 1..(i - 1) : Reaches(s, k)}}
        Kept(s) == SelectSeq([i \in 1..Len(s) |-> i],
                             LAMBDA i : Reaches(s, i) /\ SeenKey(s[i]) \notin SeenAt(s, i))
        Formatted(s, kept) ==
            AsTuple([k \in 1..Len(kept) |-> FormatOrder(symbol, s[kept[k]])])
    IN CHOOSE orders \in
           UNION {{Formatted(s, kept) : kept \in {Kept(s)}} : s \in {AsTuple(todo)}} : TRUE

\* ideal_orders_f of Passivbot.calc_ideal_orders
FilteredOrders(ideal_orders) ==
    [symbol \in Symbols |->
        FilterWalk(symbol, SortTuples(symbol, ideal_orders[symbol], <<>>), {})]

\* Passivbot.calc_ideal_orders raises when calc_unstucking_close raises
IdealRaises == calc_unstucking_close(ComposedOrders).raised

PassivbotIdealOrders == FilteredOrders(WithUnstuck(ComposedOrders))

----------------------------------------------------------------------------
(* Sorting formatted orders by their distance to the last price *)

\* variant: the queue is left in composition order
SortByDist_unsorted(orders) == orders

OrderDist(x) == calc_diff(x.price, get_last_price(x.symbol))

\* sorted(orders, key=lambda x: calc_diff(x["price"], last price of x["symbol"]))
SortByDist(orders) ==
    LET Keyed(o) == AsTuple([i \in 1..Len(o) |-> [key |-> OrderDist(o[i]), order |-> o[i]]])
        Orders(sorted) == AsTuple([i \in 1..Len(sorted) |-> sorted[i].order])
    IN CHOOSE result \in
           UNION {{Orders(sorted) :
                      sorted \in {StableSort(Keyed(o), LAMBDA x, y : DiffLess(x.key, y.key))}} :
                  o \in {AsTuple(orders)}} : TRUE

\* Bitget returns at most this many open orders per fetch
BitgetMaxOrders == 100

\* BitgetBot.calc_ideal_orders: the orders closest to the last price, by symbol
calc_ideal_orders ==
    LET BySymbol(kept) ==
            [symbol \in Symbols |->
               SelectSeqBy(kept, {x \in Range(kept) : x.symbol = symbol /\ IsActive(symbol)})]
    IN CHOOSE orders \in
           {BySymbol(kept) :
               kept \in {Take(SortByDist(ConcatOver(active_symbols, PassivbotIdealOrders)),
                              BitgetMaxOrders)}} : TRUE

----------------------------------------------------------------------------
(* calc_orders_to_cancel_and_create *)

IsReduceOnly(position_side, side) ==
    \/ position_side = "long" /\ side = "sell"
    \/ position_side = "short" /\ side = "buy"

\* the reconciler's view of one entry of self.open_orders
ActualOrder(x) ==
    [symbol |-> x.symbol,
     side |-> x.side,
     position_side |-> x.position_side,
     qty |-> Abs(x.qty),
     price |-> x.price,
     reduce_only |-> IsReduceOnly(x.position_side, x.side),
     id |-> x.id]

actual_orders ==
    [symbol \in Symbols |->
        IF IsActive(symbol)
        THEN [i \in 1..Len(open_orders[symbol]) |-> ActualOrder(open_orders[symbol][i])]
        ELSE <<>>]

\* variant: orders matched without their qty
OrderKey_without_qty(x) == <<x.symbol, x.side, x.position_side, x.price>>

\* keys = ("symbol", "side", "position_side", "qty", "price")
OrderKey(x) == <<x.symbol, x.side, x.position_side, x.qty, x.price>>

KeysOf(orders) == {OrderKey(x) : x \in Range(orders)}

\* filter_orders(actual, ideal, keys): to_cancel = actual - ideal, to_create = ideal - actual
filter_orders(actual, ideal) ==
    LET Diff(a, i, ka, ki) ==
            [cancel |-> SelectSeqBy(a, {x \in Range(a) : OrderKey(x) \notin ki}),
             create |-> SelectSeqBy(i, {x \in Range(i) : OrderKey(x) \notin ka})]
    IN CHOOSE d \in {Diff(a, i, KeysOf(a), KeysOf(i)) : a \in {actual}, i \in {ideal}} : TRUE

\* variant: manual mode of one side holds back the orders of both sides
PassesMode_manual_symbol(symbol, pside, x) ==
    IF live_configs[symbol][pside].mode = "manual"
    THEN FALSE
    ELSE IF live_configs[symbol][pside].mode = "tp_only"
    THEN x.position_side # pside \/ (x.position_side = pside /\ x.reduce_only)
    ELSE TRUE

\* variant: tp_only mode holds back nothing
PassesMode_tp_only_open(symbol, pside, x) ==
    IF live_configs[symbol][pside].mode = "manual"
    THEN x.position_side # pside
    ELSE TRUE

\* what the mode of one position side lets through
PassesMode(symbol, pside, x) ==
    IF live_configs[symbol][pside].mode = "manual"
    THEN x.position_side # pside
    ELSE IF live_configs[symbol][pside].mode = "tp_only"
    THEN x.position_side # pside \/ (x.position_side = pside /\ x.reduce_only)
    ELSE TRUE

\* for pside in ["long", "short"]: ... filter to_cancel_ and to_create_
ModeFilter(symbol, orders) ==
    SelectSeqBy(orders, {x \in Range(orders) :
                            PassesMode(symbol, "long", x) /\ PassesMode(symbol, "short", x)})

SymbolDiff(ideal_orders) ==
    [symbol \in Symbols |->
        LET d == filter_orders(actual_orders[symbol], ideal_orders[symbol])
        IN [cancel |-> ModeFilter(symbol, d.cancel),
            create |-> ModeFilter(symbol, d.create)]]

\* calc_orders_to_cancel_and_create after its first line, ideal_orders being computed
OrdersToCancelAndCreate(ideal_orders) ==
    LET d == SymbolDiff(ideal_orders)
    IN [cancel |-> SortByDist(ConcatOver(active_symbols, [s \in Symbols |-> d[s].cancel])),
        create |-> SortByDist(ConcatOver(active_symbols, [s \in Symbols |-> d[s].create]))]

calc_orders_to_cancel_and_create == OrdersToCancelAndCreate(calc_ideal_orders)

----------------------------------------------------------------------------
(* Batches: execute_to_exchange, BitgetBot.execute_cancellations / execute_orders, *)
(* execute_multiple                                                                *)

\* execute_multiple starts a task for each of orders[:max_n_executions]
execute_multiple_orders(orders, max_n_executions) == Take(orders, max_n_executions)

\* BitgetBot.execute_cancellations: reduce-only orders first when over the cap
execute_cancellations_orders(orders) ==
    LET cap == config.max_n_cancellations_per_batch
        reordered ==
            IF Len(orders) > cap
            THEN Take(SelectSeqBy(orders, {x \in Range(orders) : x.reduce_only})
                      \o SelectSeqBy(orders, {x \in Range(orders) : ~x.reduce_only}), cap)
            ELSE orders
    IN execute_multiple_orders(reordered, cap)

\* variant: the whole list is sent
CancelBatch_uncapped(cancel) == cancel

\* the cancellations execute_to_exchange sends for a to_cancel list
CancelBatch(cancel) ==
    execute_cancellations_orders(Take(cancel, config.max_n_cancellations_per_batch))

\* the creations execute_to_exchange sends for a to_create list
CreateBatch(create) ==
    execute_multiple_orders(Take(create, config.max_n_creations_per_batch),
                            config.max_n_creations_per_batch)

----------------------------------------------------------------------------
(* update_PB_modes.  forced_modes[pside][symbol] = "none" stands for a     *)
(* symbol that is not a key of self.forced_modes[pside]; likewise "none"   *)
(* in a PB_modes function stands for a symbol without an entry.            *)
(* eligible_symbols holds the symbols that pass the tests of the ranking   *)
(* loop (eligible, old enough, effective min cost low enough).             *)

Forced(pside, symbol) == forced_modes[pside][symbol] # "none"

\* symbols with a position or an open order on pside
actual_actives(pside) ==
    {p.symbol : p \in {q \in fetched_positions : q.position_side = pside}}
    \cup {o.symbol : o \in {q \in Range(fetched_open_orders) : q.position_side = pside}}

DefaultMode_stop == "graceful_stop"

\* "graceful_stop" if auto_gs else "manual"
DefaultMode == IF config.auto_gs THEN "graceful_stop" ELSE "manual"

\* self.PB_modes[pside] after "set forced modes first"
ForcedFirst(pside) ==
    [s \in Symbols |->
        IF /\ Forced(pside, s)
           /\ (forced_modes[pside][s] = "normal" \/ s \in actual_actives(pside))
        THEN forced_modes[pside][s]
        ELSE "none"]

\* self.ideal_actives[pside] after "set forced modes first", in insertion order
ForcedIdeal(pside) ==
    SelectSeqBy(SymbolOrder, {s \in Symbols : forced_modes[pside][s] = "normal"})

\* the ranking loop of the forager: symbols from the most noisy on, until
\* the ideal set holds n_positions symbols
RECURSIVE RankWalk(_, _, _)
RankWalk(ranking, ideal, n) ==
    IF ranking = <<>> THEN ideal
    ELSE LET symbol == Head(ranking)
         IN IF symbol \notin eligible_symbols THEN RankWalk(Tail(ranking), ideal, n)
            ELSE IF Len(ideal) >= n THEN ideal
            ELSE RankWalk(Tail(ranking),
                          IF symbol \in Range(ideal) THEN ideal ELSE Append(ideal, symbol),
                          n)

\* self.ideal_actives[pside], in insertion order
ideal_actives(pside) ==
    IF bot.forager_mode
    THEN RankWalk(noisiness, ForcedIdeal(pside), bot.n_positions[pside])
    ELSE ForcedIdeal(pside) \o
         SelectSeqBy(SymbolOrder,
                     {s \in Symbols : /\ bot.enabled[pside]
                                      /\ s \in eligible_symbols
                                      /\ ~Forced(pside, s)})

\* "actual actives fill slots first"
ActualFirst(pside, pb, ideal) ==
    [s \in Symbols |->
        IF s \in actual_actives(pside) /\ ~Forced(pside, s)
        THEN (IF s \in Range(ideal) THEN "normal" ELSE DefaultMode)
        ELSE pb[s]]

SlotsFilled_normal(pb) == {s \in Symbols : pb[s] = "normal"}

\* "a slot is filled if symbol in [normal, graceful_stop]"
SlotsFilled(pb) == {s \in Symbols : pb[s] \in {"normal", "graceful_stop"}}

\* "fill remaining slots with ideal actives"
RECURSIVE FillSlots(_, _, _, _)
FillSlots(pside, ideal, pb, n) ==
    IF ideal = <<>> THEN pb
    ELSE LET symbol == Head(ideal)
         IN IF pb[symbol] # "none" \/ Forced(pside, symbol)
            THEN FillSlots(pside, Tail(ideal), pb, n)
            ELSE IF Cardinality(SlotsFilled(pb)) >= n THEN pb
            ELSE FillSlots(pside, Tail(ideal), [pb EXCEPT ![symbol] = "normal"], n)

\* self.PB_modes[pside] at the end of the forager branch
ForagerModes(pside) ==
    LET ideal == ideal_actives(pside)
    IN FillSlots(pside, ideal, ActualFirst(pside, ForcedFirst(pside), ideal),
                 bot.n_positions[pside])

\* self.PB_modes[pside] at the end of the branch without forager
PlainModes(pside) ==
    LET pb == [s \in Symbols |->
                 IF bot.enabled[pside] /\ s \in eligible_symbols /\ ~Forced(pside, s)
                 THEN "normal"
                 ELSE ForcedFirst(pside)[s]]
    IN [s \in Symbols |->
          IF s \in actual_actives(pside) /\ pb[s] = "none" THEN DefaultMode ELSE pb[s]]

\* self.PB_modes[pside] when self.active_symbols is computed
PB_modes(pside) == IF bot.forager_mode THEN ForagerModes(pside) ELSE PlainModes(pside)

HasPBMode(pside, symbol) == PB_modes(pside)[symbol] # "none"

\* self.is_active[pside]: the actual actives plus the symbols on "normal"
is_active(pside) ==
    actual_actives(pside) \cup {s \in Symbols : PB_modes(pside)[s] = "normal"}

\* variant: update_PB_modes leaves the mode of live_configs as it finds it
NewMode_kept(symbol, pside) == live_configs[symbol][pside].mode

NewActiveSymbols ==
    SelectSeqBy(SymbolOrder,
                {s \in Symbols : \E pside \in PSideSet : HasPBMode(pside, s)})

\* the mode update_PB_modes writes to live_configs[symbol][pside]
NewMode(symbol, pside) ==
    IF HasPBMode(pside, symbol) THEN PB_modes(pside)[symbol] ELSE DefaultMode

NewLiveConfigs ==
    [s \in Symbols |->
        IF s \in Range(NewActiveSymbols)
        THEN [pside \in PSideSet |-> [live_configs[s][pside] EXCEPT !.mode = NewMode(s, pside)]]
        ELSE live_configs[s]]

----------------------------------------------------------------------------
(* The state store: open orders and positions *)

OrderIds(symbol) == {x.id : x \in Range(open_orders[symbol])}

\* the result of a request that failed inside execute_cancellation: {}
NoResult == [id |-> 0]

\* variant: a store that drops the response of a creation
add_new_order_dropped(oo, order) == oo

\* variant: the order is appended whatever ids the symbol holds
add_new_order_unchecked(oo, order) ==
    IF order = NoResult THEN oo
    ELSE [oo EXCEPT ![order.symbol] = Append(oo[order.symbol], order)]

\* add_new_order(order): self.open_orders afterwards
add_new_order(oo, order) ==
    IF order = NoResult THEN oo
    ELSE IF order.id \notin {x.id : x \in Range(oo[order.symbol])}
    THEN [oo EXCEPT ![order.symbol] = Append(oo[order.symbol], order)]
    ELSE oo

\* remove_cancelled_order(order): self.open_orders afterwards
remove_cancelled_order(oo, order) ==
    IF order = NoResult THEN oo
    ELSE [oo EXCEPT ![order.symbol] =
             SelectSeqBy(oo[order.symbol],
                         {x \in Range(oo[order.symbol]) : x.id # order.id})]

RECURSIVE RemoveAll(_, _)
\* for elm in res: self.remove_cancelled_order(elm, source="POST")
RemoveAll(oo, res) ==
    IF res = <<>> THEN oo ELSE RemoveAll(remove_cancelled_order(oo, Head(res)), Tail(res))

RECURSIVE AddAll(_, _)
\* for elm in res: self.add_new_order(elm, source="POST")
AddAll(oo, res) ==
    IF res = <<>> THEN oo ELSE AddAll(add_new_order(oo, Head(res)), Tail(res))

\* update_open_orders: self.open_orders rebuilt from the fetched list
GroupBySymbol(fetched) ==
    [s \in Symbols |-> SelectSeqBy(fetched, {x \in Range(fetched) : x.symbol = s})]

\* update_positions: positions_new from the fetched list
PositionsFrom(fetched) ==
    [s \in Symbols |->
        [pside \in PSideSet |->
            IF \E p \in fetched : p.symbol = s /\ p.position_side = pside
            THEN LET p == CHOOSE q \in fetched : q.symbol = s /\ q.position_side = pside
                 IN [size |-> Abs(p.size) * (IF pside = "short" THEN -1 ELSE 1),
                     price |-> p.price]
            ELSE [size |-> 0, price |-> 0]]]

\* what fetch_positions returns: the open positions of the exchange
FetchPositions ==
    {[symbol |-> sp[1], position_side |-> sp[2],
      size |-> Abs(ex_positions[sp[1]][sp[2]].size),
      price |-> ex_positions[sp[1]][sp[2]].price] :
        sp \in {x \in Symbols \X PSideSet : ex_positions[x[1]][x[2]].size # 0}}

----------------------------------------------------------------------------
(* run_execution_loop / execute_to_exchange as a state machine.            *)
(*   idle       : run_execution_loop sleeps until the minute changes       *)
(*   gather1    : await gather(update_open_orders, update_positions,       *)
(*                update_pnls, update_exchange_configs)                    *)
(*   gather2    : await gather(update_hlcs_1m, update_tickers)             *)
(*   compose    : update_PB_modes done, calc_orders_to_cancel_and_create   *)
(*   cancelling : await execute_cancellations(...)                         *)
(*   creating   : await execute_orders(...)                                *)

Gather1 == {"update_open_orders", "update_positions", "update_pnls",
            "update_exchange_configs"}

Gather2 == {"update_hlcs_1m", "update_tickers"}

\* number of ticks a behaviour of the model runs
MaxTicks == 3

\* number of requests that fail in a behaviour of the model
MaxFaults == 1

NewTick(n) ==
    [n |-> n, refreshed |-> {}, failed |-> {}, composed |-> FALSE, raised |-> FALSE,
     sent_cancel |-> <<>>, cancels_applied |-> FALSE, sent_create |-> <<>>,
     done |-> FALSE, limits_set |-> {}, rebuilt |-> FALSE]

\* run_execution_loop: the minute changed, execute_to_exchange is called
StartTick ==
    /\ pc = "idle"
    /\ tick.n < MaxTicks
    /\ pc' = "gather1"
    /\ fin' = {}
    /\ tick' = NewTick(tick.n + 1)
    /\ UNCHANGED <<orderflow, updates, trail, maint, mainvars, sched, markets, composed, start_orders, faults, pnls, noisiness, eligible_symbols, bot, events, config, forced_modes, active_symbols, live_configs, positions, balance,
                   tickers, emas, grid, open_orders, fetched_positions, fetched_open_orders,
                   ex_orders, ex_positions, next_id, to_cancel, to_create, executions>>

Finish(name) ==
    /\ fin' = fin \cup {name}
    /\ tick' = [tick EXCEPT !.refreshed = @ \cup {name}]

\* the update returns False
Fail(name) ==
    /\ fin' = fin \cup {name}
    /\ tick' = [tick EXCEPT !.refreshed = @ \cup {name}, !.failed = @ \cup {name}]

\* update_open_orders: the fetch returned the exchange's open orders
UpdateOpenOrdersOk ==
    /\ pc = "gather1"
    /\ "update_open_orders" \notin fin
    /\ fetched_open_orders' = ex_orders
    /\ open_orders' = GroupBySymbol(ex_orders)
    /\ Finish("update_open_orders")
    /\ UNCHANGED <<orderflow, updates, trail, maint, mainvars, sched, markets, composed, start_orders, faults, pnls, noisiness, eligible_symbols, bot, events, pc, config, forced_modes, active_symbols, live_configs, positions, balance,
                   tickers, emas, grid, fetched_positions, ex_orders, ex_positions, next_id,
                   to_cancel, to_create, executions>>

\* update_open_orders: fetch_open_orders returned False
UpdateOpenOrdersFails ==
    /\ pc = "gather1"
    /\ "update_open_orders" \notin fin
    /\ faults < MaxFaults
    /\ faults' = faults + 1
    /\ Fail("update_open_orders")
    /\ UNCHANGED <<orderflow, updates, trail, maint, mainvars, sched, markets, composed, start_orders, pnls, noisiness, eligible_symbols, bot, events, pc, config, forced_modes, active_symbols, live_configs, positions, balance,
                   tickers, emas, grid, open_orders, fetched_positions, fetched_open_orders,
                   ex_orders, ex_positions, next_id, to_cancel, to_create, executions>>

\* update_positions: the fetch returned the exchange's positions and balance
UpdatePositionsOk ==
    /\ pc = "gather1"
    /\ "update_positions" \notin fin
    /\ fetched_positions' = FetchPositions
    /\ positions' = PositionsFrom(FetchPositions)
    /\ Finish("update_positions")
    /\ UNCHANGED <<orderflow, updates, trail, maint, mainvars, sched, markets, composed, start_orders, faults, pnls, noisiness, eligible_symbols, bot, events, pc, config, forced_modes, active_symbols, live_configs, balance,
                   tickers, emas, grid, open_orders, fetched_open_orders, ex_orders,
                   ex_positions, next_id, to_cancel, to_create, executions>>

\* update_pnls, update_exchange_configs: no state of the model changes
UpdateOther(name) ==
    /\ pc = "gather1"
    /\ name \in {"update_pnls", "update_exchange_configs"}
    /\ name \notin fin
    /\ Finish(name)
    /\ UNCHANGED <<orderflow, updates, trail, maint, mainvars, sched, markets, composed, start_orders, faults, pnls, noisiness, eligible_symbols, bot, events, pc, config, forced_modes, active_symbols, live_configs, positions, balance,
                   tickers, emas, grid, open_orders, fetched_positions, fetched_open_orders,
                   ex_orders, ex_positions, next_id, to_cancel, to_create, executions>>

\* the first gather returns: the second one starts
Gather1Returns ==
    /\ pc = "gather1"
    /\ fin = Gather1
    /\ pc' = "gather2"
    /\ fin' = {}
    /\ UNCHANGED <<orderflow, updates, trail, maint, mainvars, sched, markets, composed, start_orders, faults, pnls, noisiness, eligible_symbols, bot, events, config, forced_modes, active_symbols, live_configs, positions, balance,
                   tickers, emas, grid, open_orders, fetched_positions, fetched_open_orders,
                   ex_orders, ex_positions, next_id, to_cancel, to_create, executions, tick>>

\* update_hlcs_1m, update_tickers: the market of the model does not move
UpdateMarket(name) ==
    /\ pc = "gather2"
    /\ name \in Gather2
    /\ name \notin fin
    /\ Finish(name)
    /\ UNCHANGED <<orderflow, updates, trail, maint, mainvars, sched, markets, composed, start_orders, faults, pnls, noisiness, eligible_symbols, bot, events, pc, config, forced_modes, active_symbols, live_configs, positions, balance,
                   tickers, emas, grid, open_orders, fetched_positions, fetched_open_orders,
                   ex_orders, ex_positions, next_id, to_cancel, to_create, executions>>

----------------------------------------------------------------------------
(* Composition, diff and dispatch *)

Pending(orders) ==
    [i \in 1..Len(orders) |-> [order |-> orders[i], status |-> "pending", result |-> NoResult]]

RECURSIVE Results_until_raise(_)
\* variant: the first task that raises ends the collection of results
Results_until_raise(execs) ==
    IF execs = <<>> \/ Head(execs).status # "done" THEN <<>>
    ELSE <<Head(execs).result>> \o Results_until_raise(Tail(execs))

\* results of execute_multiple: the results of the tasks that did not raise
Results(execs) ==
    LET done == SelectSeqBy(execs, {e \in Range(execs) : e.status = "done"})
    IN [i \in 1..Len(done) |-> done[i].result]

AllReturned == \A i \in 1..Len(executions) : executions[i].status # "pending"

\* both gathers returned: prepare_for_execution ends with update_PB_modes
UpdatePBModes ==
    /\ pc = "gather2"
    /\ fin = Gather2
    /\ fin' = {}
    /\ active_symbols' = NewActiveSymbols
    /\ live_configs' = NewLiveConfigs
    /\ tick' = [tick EXCEPT
                  !.refreshed = @ \cup {"update_PB_modes"},
                  !.limits_set = {sp \in Symbols \X PSideSet : sp[1] \in is_active(sp[2])}]
    /\ pc' = "compose"
    /\ UNCHANGED <<orderflow, updates, trail, maint, mainvars, sched, markets, composed, start_orders, faults, pnls, noisiness, eligible_symbols, bot, events, config, forced_modes, positions, balance, tickers, emas, grid,
                   open_orders, fetched_positions, fetched_open_orders, ex_orders,
                   ex_positions, next_id, to_cancel, to_create, executions>>

\* calc_orders_to_cancel_and_create returns and the cancellation tasks are started
Compose ==
    /\ pc = "compose"
    /\ ~IdealRaises
    /\ composed' = calc_ideal_orders
    /\ \E d \in {calc_orders_to_cancel_and_create} :
         /\ to_cancel' = d.cancel
         /\ to_create' = d.create
         /\ executions' = Pending(CancelBatch(d.cancel))
         /\ tick' = [tick EXCEPT !.composed = TRUE, !.sent_cancel = CancelBatch(d.cancel)]
    /\ pc' = "cancelling"
    /\ UNCHANGED <<orderflow, updates, trail, maint, mainvars, sched, markets, start_orders, faults, pnls, noisiness, eligible_symbols, bot, events, fin, config, forced_modes, active_symbols, live_configs, positions,
                   balance, tickers, emas, grid, open_orders, fetched_positions,
                   fetched_open_orders, ex_orders, ex_positions, next_id>>

\* calc_ideal_orders raises: execute_to_exchange ends, run_execution_loop logs the error
ComposeRaises ==
    /\ pc = "compose"
    /\ IdealRaises
    /\ tick' = [tick EXCEPT !.raised = TRUE, !.done = TRUE]
    /\ pc' = "idle"
    /\ UNCHANGED <<orderflow, updates, trail, maint, mainvars, sched, markets, composed, start_orders, faults, pnls, noisiness, eligible_symbols, bot, events, fin, config, forced_modes, active_symbols, live_configs, positions,
                   balance, tickers, emas, grid, open_orders, fetched_positions,
                   fetched_open_orders, ex_orders, ex_positions, next_id, to_cancel,
                   to_create, executions>>

\* the dict an execution returns: symbol, side, id, position_side, qty, price
NewExchangeOrder(order, id) ==
    [id |-> id, symbol |-> order.symbol, side |-> order.side,
     position_side |-> order.position_side, qty |-> order.qty, price |-> order.price]

OnExchange(id) == \E x \in Range(ex_orders) : x.id = id

\* execute_cancellation: the exchange cancelled the order
CancelOk(i) ==
    /\ pc = "cancelling"
    /\ i \in 1..Len(executions)
    /\ executions[i].status = "pending"
    /\ OnExchange(executions[i].order.id)
    /\ ex_orders' = SelectSeqBy(ex_orders,
                                {x \in Range(ex_orders) : x.id # executions[i].order.id})
    /\ executions' = [executions EXCEPT ![i] =
          [@ EXCEPT !.status = "done",
                    !.result = NewExchangeOrder(executions[i].order,
                                                executions[i].order.id)]]
    /\ UNCHANGED <<orderflow, updates, trail, maint, mainvars, sched, markets, composed, start_orders, faults, pnls, noisiness, eligible_symbols, bot, events, pc, fin, config, forced_modes, active_symbols, live_configs, positions,
                   balance, tickers, emas, grid, open_orders, fetched_positions,
                   fetched_open_orders, ex_positions, next_id, to_cancel, to_create, tick>>

\* execute_cancellation: cancel_order raised, the error is logged and {} returned
CancelFails(i) ==
    /\ pc = "cancelling"
    /\ i \in 1..Len(executions)
    /\ executions[i].status = "pending"
    /\ faults < MaxFaults
    /\ faults' = faults + 1
    /\ executions' = [executions EXCEPT ![i] = [@ EXCEPT !.status = "done"]]
    /\ UNCHANGED <<orderflow, updates, trail, maint, mainvars, sched, markets, composed, start_orders, pnls, noisiness, eligible_symbols, bot, events, pc, fin, config, forced_modes, active_symbols, live_configs, positions,
                   balance, tickers, emas, grid, open_orders, fetched_positions,
                   fetched_open_orders, ex_orders, ex_positions, next_id, to_cancel,
                   to_create, tick>>

\* variant: the creation tasks are started without applying the cancellations' results
CancellationsReturn_unapplied ==
    /\ pc = "cancelling"
    /\ AllReturned
    /\ executions' = Pending(CreateBatch(to_create))
    /\ tick' = [tick EXCEPT !.cancels_applied = TRUE, !.sent_create = CreateBatch(to_create)]
    /\ pc' = "creating"
    /\ UNCHANGED <<orderflow, updates, trail, maint, mainvars, sched, markets, composed, start_orders, faults, pnls, noisiness, eligible_symbols, bot, events, fin, config, forced_modes, active_symbols,
                   live_configs, positions, balance, tickers, emas, grid, open_orders,
                   fetched_positions, fetched_open_orders, ex_orders, ex_positions, next_id,
                   to_cancel, to_create>>

\* execute_cancellations returned: its results are applied and the creation tasks started
CancellationsReturn ==
    /\ pc = "cancelling"
    /\ AllReturned
    /\ open_orders' = RemoveAll(open_orders, Results(executions))
    /\ executions' = Pending(CreateBatch(to_create))
    /\ tick' = [tick EXCEPT !.cancels_applied = TRUE, !.sent_create = CreateBatch(to_create)]
    /\ pc' = "creating"
    /\ UNCHANGED <<orderflow, updates, trail, maint, mainvars, sched, markets, composed, start_orders, faults, pnls, noisiness, eligible_symbols, bot, events, fin, config, forced_modes, active_symbols, live_configs, positions,
                   balance, tickers, emas, grid, fetched_positions, fetched_open_orders,
                   ex_orders, ex_positions, next_id, to_cancel, to_create>>

\* execute_order: the exchange accepted the order
CreateOk(i) ==
    /\ pc = "creating"
    /\ i \in 1..Len(executions)
    /\ executions[i].status = "pending"
    /\ ex_orders' = Append(ex_orders, NewExchangeOrder(executions[i].order, next_id))
    /\ next_id' = next_id + 1
    /\ executions' = [executions EXCEPT ![i] =
          [@ EXCEPT !.status = "done", !.result = NewExchangeOrder(executions[i].order, next_id)]]
    /\ UNCHANGED <<orderflow, updates, trail, maint, mainvars, sched, markets, composed, start_orders, faults, pnls, noisiness, eligible_symbols, bot, events, pc, fin, config, forced_modes, active_symbols, live_configs, positions,
                   balance, tickers, emas, grid, open_orders, fetched_positions,
                   fetched_open_orders, ex_positions, to_cancel, to_create, tick>>

\* execute_order: create_order raised; execute_multiple logs it and has no result
CreateFails(i) ==
    /\ pc = "creating"
    /\ i \in 1..Len(executions)
    /\ executions[i].status = "pending"
    /\ faults < MaxFaults
    /\ faults' = faults + 1
    /\ executions' = [executions EXCEPT ![i] = [@ EXCEPT !.status = "raised"]]
    /\ UNCHANGED <<orderflow, updates, trail, maint, mainvars, sched, markets, composed, start_orders, pnls, noisiness, eligible_symbols, bot, events, pc, fin, config, forced_modes, active_symbols, live_configs, positions,
                   balance, tickers, emas, grid, open_orders, fetched_positions,
                   fetched_open_orders, ex_orders, ex_positions, next_id, to_cancel,
                   to_create, tick>>

\* execute_orders returned: its results are applied and execute_to_exchange ends
CreationsReturn ==
    /\ pc = "creating"
    /\ AllReturned
    /\ open_orders' = AddAll(open_orders, Results(executions))
    /\ executions' = <<>>
    /\ tick' = [tick EXCEPT !.done = TRUE]
    /\ pc' = "idle"
    /\ UNCHANGED <<orderflow, updates, trail, maint, mainvars, sched, markets, composed, start_orders, faults, pnls, noisiness, eligible_symbols, bot, events, fin, config, forced_modes, active_symbols, live_configs, positions,
                   balance, tickers, emas, grid, fetched_positions, fetched_open_orders,
                   ex_orders, ex_positions, next_id, to_cancel, to_create>>

----------------------------------------------------------------------------
(* Scenarios of the execution loop: symbol A trades both sides, symbol B is *)
(* a second active market at another price level.                          *)

T(qty, price, tag) == [qty |-> qty, price |-> price, tag |-> tag]

X(symbol, side, position_side, qty, price) ==
    [id |-> 0, symbol |-> symbol, side |-> side, position_side |-> position_side,
     qty |-> qty, price |-> price]

NoGrid == [entries |-> <<>>, closes |-> <<>>]

\* pbr entry / close grids of A long without and with a position
GridLongFlat == {[entries |-> <<T(1, 2, "entry_initial_normal_long")>>, closes |-> <<>>]}

GridLongPos ==
    {[entries |-> <<T(1, 1, "entry_grid_normal_long")>>,
      closes |-> <<T(-1, 4, "close_grid_long"), T(-1, 5, "close_grid_long")>>],
     [entries |-> <<>>, closes |-> <<T(-2, 4, "close_grid_long")>>],
     [entries |-> <<>>, closes |-> <<T(-2, 5, "close_grid_long")>>]}

GridShortFlat ==
    {NoGrid, [entries |-> <<T(-1, 5, "entry_initial_normal_short")>>, closes |-> <<>>]}

GridB == [entries |-> <<T(1, 2, "entry_initial_normal_long")>>, closes |-> <<>>]

\* orders that may rest on the exchange when the loop starts
Resting ==
    <<X("A", "buy", "long", 1, 2), X("A", "buy", "long", 1, 1),
      X("A", "sell", "long", 1, 4), X("A", "sell", "long", 2, 4),
      X("A", "sell", "short", 1, 5), X("A", "sell", "long", 1, 5),
      X("B", "buy", "long", 2, 2)>>

\* at most this many orders rest on the exchange when the loop starts
MaxInitialOrders == 2

WithIds(orders) == [i \in 1..Len(orders) |-> [orders[i] EXCEPT !.id = i]]

InitialOrders ==
    {WithIds(SelectSeqBy(Resting, S)) :
        S \in {R \in SUBSET Range(Resting) : Cardinality(R) <= MaxInitialOrders}}

LiveConfig ==
    [mode |-> "unset", n_positions |-> 1, wallet_exposure_limit |-> 10,
     unstuck_threshold |-> 9, unstuck_close_pct |-> 1, unstuck_ema_dist |-> 0,
     unstuck_loss_allowance_pct |-> 2]

Flat == [size |-> 0, price |-> 0]

\* no realized loss in the lookback window, every symbol eligible, one slot per side
\* every market is listed, active and eligible, and none is ignored
MarketsKnown ==
    /\ markets_dict = [s \in Symbols |-> "active"]
    /\ ex_markets = [s \in Symbols |-> "active"]
    /\ ignored_symbols = {}

\* the loop has not seen a fill or an error, and no time has passed
NoSchedule ==
    /\ now = 0
    /\ prev_minute = 0
    /\ recent_fill = FALSE
    /\ history = [began_with_fill |-> FALSE, since_done |-> 0, errors |-> 0, restarted |-> <<>>,
                  started |-> -1, running |-> 0]

MaintainerNames == {"maintain_market_info", "maintain_hlcs_15m", "maintain_EMAs"}

\* the bot runs: its maintainers are started and its connections are open
MainIdle ==
    /\ restarts = <<>>
    /\ maintainers = [k \in MaintainerNames |-> "running"]
    /\ connections = [c \in {"ccp", "cca"} |-> "open"]

\* start_data_maintainers: last_update_timestamps = 0.0, no task created
MaintainIdle ==
    /\ last_update_timestamps = [k \in MaintainerNames |-> 0]
    /\ maintain_thing = [k \in MaintainerNames |-> "none"]
    /\ attempts = [k \in MaintainerNames |-> [began |-> 0, ended |-> "none", after |-> "none"]]

UpdateNames == {"pnls", "open_orders", "positions", "tickers"}

\* Passivbot.__init__: the update timestamps are 0.0, self.pnls is empty; no
\* call of update_pnls is underway and there is no cache file
UpdIdle ==
    /\ upd_timestamps = [k \in UpdateNames |-> 0]
    /\ pnls_call = [at |-> "idle", age_limit |-> 0, pnls_cache |-> <<>>, returned |-> "none",
                    offered |-> FALSE]
    /\ pnls_cache = <<>>

\* no call of update_open_orders is underway, no order update was delivered
OrdersIdle ==
    /\ oo_call = [at |-> "idle", res |-> <<>>, added |-> {}]
    /\ ws_log = <<>>

Inf == 1000

\* update_trailing_data: the values every side is reset to
Sentinels ==
    [max_since_open |-> 0, min_since_max |-> Inf, min_since_open |-> Inf, max_since_min |-> 0]

\* a bot without candles and fills
NoTrailing ==
    /\ ex_candles = <<>>
    /\ ex_fills = <<>>
    /\ opened = [pside \in PSideSet |-> [at |-> 0, seen |-> 0]]
    /\ hlcs_1m = [s \in Symbols |-> <<>>]
    /\ fills = <<>>
    /\ trailing_prices = [s \in Symbols |-> [pside \in PSideSet |-> Sentinels]]
    /\ trail_config = [pnls_max_lookback_days |-> 0, trailing |-> FALSE]

NoForager ==
    /\ pnls = [realized |-> 0, peak_balance |-> 100]
    /\ noisiness = SymbolOrder
    /\ eligible_symbols = Symbols
    /\ bot = [forager_mode |-> FALSE,
              n_positions |-> [pside \in PSideSet |-> 1],
              enabled |-> [pside \in PSideSet |-> TRUE]]
    /\ events = 0
    /\ OrdersIdle
    /\ UpdIdle
    /\ NoTrailing
    /\ MaintainIdle
    /\ MainIdle
    /\ NoSchedule
    /\ MarketsKnown

InitLoop(oo) ==
    /\ pc = "idle"
    /\ fin = {}
    /\ active_symbols = <<>>
    /\ live_configs = [s \in Symbols |-> [pside \in PSideSet |-> LiveConfig]]
    /\ balance = 100
    /\ tickers = [s \in Symbols |->
                    IF s = "A" THEN [bid |-> 3, ask |-> 4, last |-> 3]
                    ELSE [bid |-> 4, ask |-> 5, last |-> 4]]
    /\ emas = [pside \in PSideSet |-> [s \in Symbols |-> [min |-> 3, max |-> 4]]]
    /\ ex_orders = oo
    /\ next_id = Len(oo) + 1
    /\ open_orders = GroupBySymbol(oo)
    /\ fetched_open_orders = oo
    /\ positions = PositionsFrom(FetchPositions)
    /\ fetched_positions = FetchPositions
    /\ to_cancel = <<>>
    /\ to_create = <<>>
    /\ executions = <<>>
    /\ composed = [s \in Symbols |-> <<>>]
    /\ start_orders = oo
    /\ faults = 0
    /\ NoForager
    /\ tick = NewTick(0)

Caps ==
    [max_n_cancellations_per_batch : {1, 2},
     max_n_creations_per_batch : {1, 2},
     auto_gs : {TRUE},
     price_distance_threshold : {200}]

\* forced modes: A long as given, B short stopped gracefully, the rest normal
ForcedModes(mode) ==
    [pside \in PSideSet |-> [s \in Symbols |->
        IF pside = "long" /\ s = "A" THEN mode
        ELSE IF pside = "short" /\ s = "B" THEN "graceful_stop"
        ELSE "normal"]]

\* the exchange holds a long position of the given size in A (0: none)
ExchangePositions(size) ==
    [s \in Symbols |-> [pside \in PSideSet |->
        IF s = "A" /\ pside = "long" /\ size # 0
        THEN [size |-> size, price |-> 3] ELSE Flat]]

Grids(gl, gs) ==
    [s \in Symbols |-> [pside \in PSideSet |->
        IF s = "A" THEN (IF pside = "long" THEN gl ELSE gs)
        ELSE IF pside = "long" THEN GridB ELSE NoGrid]]

\* the loop under requests that may fail: A is flat and in normal mode
Init ==
    /\ config \in Caps
    /\ forced_modes = ForcedModes("normal")
    /\ ex_positions = ExchangePositions(0)
    /\ \E gl \in GridLongFlat : grid = Grids(gl, NoGrid)
    /\ \E oo \in InitialOrders : InitLoop(oo)

Next ==
    \/ StartTick
    \/ UpdateOpenOrdersOk
    \/ UpdateOpenOrdersFails
    \/ UpdatePositionsOk
    \/ \E name \in Gather1 : UpdateOther(name)
    \/ Gather1Returns
    \/ \E name \in Gather2 : UpdateMarket(name)
    \/ UpdatePBModes
    \/ Compose
    \/ \E i \in 1..2 : CancelOk(i)
    \/ \E i \in 1..2 : CancelFails(i)
    \/ CancellationsReturn
    \/ \E i \in 1..2 : CreateOk(i)
    \/ \E i \in 1..2 : CreateFails(i)
    \/ CreationsReturn

Spec == Init /\ [][Next]_vars

\* the loop when every request succeeds, over modes, positions and grids of A
InitReliable ==
    /\ config \in Caps
    /\ \E mode \in {"normal", "manual", "tp_only"} : forced_modes = ForcedModes(mode)
    /\ \E size \in {0, 2} :
         /\ ex_positions = ExchangePositions(size)
         /\ \E gl \in (IF size = 0 THEN GridLongFlat ELSE GridLongPos), gs \in GridShortFlat :
              grid = Grids(gl, gs)
    /\ \E oo \in InitialOrders : InitLoop(oo)

NextReliable ==
    \/ StartTick
    \/ UpdateOpenOrdersOk
    \/ UpdatePositionsOk
    \/ \E name \in Gather1 : UpdateOther(name)
    \/ Gather1Returns
    \/ \E name \in Gather2 : UpdateMarket(name)
    \/ UpdatePBModes
    \/ Compose
    \/ \E i \in 1..2 : CancelOk(i)
    \/ CancellationsReturn
    \/ \E i \in 1..2 : CreateOk(i)
    \/ CreationsReturn

SpecReliable == InitReliable /\ [][NextReliable]_vars

----------------------------------------------------------------------------
(* calc_orders_to_cancel_and_create on its own: the state in which          *)
(* execute_to_exchange calls it is drawn from modes, positions, grids,      *)
(* balances and resting orders of A; the action applies it.                 *)

GridShortPos ==
    {[entries |-> <<>>, closes |-> <<T(1, 2, "close_grid_short"), T(1, 1, "close_grid_short")>>]}

\* a short initial entry of the long position's size, at the ask
GridShortAtAsk == [entries |-> <<T(-2, 4, "entry_initial_normal_short")>>, closes |-> <<>>]

RestingBoth == Resting \o <<X("A", "buy", "short", 2, 3)>>

InitialOrdersBoth ==
    {WithIds(SelectSeqBy(RestingBoth, S)) :
        S \in {R \in SUBSET Range(RestingBoth) : Cardinality(R) <= MaxInitialOrders}}

\* the exchange holds the given numbers of contracts of A, long and short
ExchangePositionsBoth(long_size, short_size) ==
    [s \in Symbols |-> [pside \in PSideSet |->
        IF s = "A" /\ pside = "long" /\ long_size # 0
        THEN [size |-> long_size, price |-> 3]
        ELSE IF s = "A" /\ pside = "short" /\ short_size # 0
        THEN [size |-> short_size, price |-> 3]
        ELSE Flat]]

InitPure ==
    /\ pc = "compose"
    /\ fin = {}
    /\ config = [max_n_cancellations_per_batch |-> 2, max_n_creations_per_batch |-> 2,
                 auto_gs |-> TRUE, price_distance_threshold |-> 200]
    /\ \E ml \in Modes, ms \in Modes \ {"graceful_stop"} :
         /\ forced_modes = [pside \in PSideSet |-> [s \in Symbols |->
                               IF s = "A" THEN (IF pside = "long" THEN ml ELSE ms)
                               ELSE IF pside = "short" THEN "graceful_stop" ELSE "normal"]]
    /\ balance \in {6, 100}
    /\ tickers = [s \in Symbols |->
                    IF s = "A" THEN [bid |-> 3, ask |-> 4, last |-> 3]
                    ELSE [bid |-> 4, ask |-> 5, last |-> 4]]
    /\ emas = [pside \in PSideSet |-> [s \in Symbols |-> [min |-> 3, max |-> 4]]]
    /\ \E ls \in {0, 2}, ss \in {0, 2} :
         /\ ex_positions = ExchangePositionsBoth(ls, ss)
         /\ \E gl \in (IF ls = 0 THEN GridLongFlat ELSE GridLongPos),
               gs \in (IF ss = 0 THEN GridShortFlat \cup {GridShortAtAsk} ELSE GridShortPos) :
              grid = Grids(gl, gs)
    /\ positions = PositionsFrom(FetchPositions)
    /\ fetched_positions = FetchPositions
    /\ \E oo \in InitialOrdersBoth :
         /\ ex_orders = oo
         /\ next_id = Len(oo) + 1
         /\ open_orders = GroupBySymbol(oo)
         /\ fetched_open_orders = oo
         /\ start_orders = oo
    /\ to_cancel = <<>>
    /\ to_create = <<>>
    /\ executions = <<>>
    /\ composed = [s \in Symbols |-> <<>>]
    /\ faults = 0
    /\ NoForager
    /\ active_symbols = NewActiveSymbols
    /\ live_configs = [s \in Symbols |-> [pside \in PSideSet |->
                         [LiveConfig EXCEPT !.mode = NewMode(s, pside)]]]
    /\ tick = [NewTick(1) EXCEPT !.refreshed = Gather1 \cup Gather2 \cup {"update_PB_modes"}]

NextPure ==
    \/ Compose
    \/ ComposeRaises

SpecPure == InitPure /\ [][NextPure]_vars

----------------------------------------------------------------------------
(* Properties of the reconciliation loop *)

\* the orders of each symbol that the modes of its sides let the reconciler touch
Touchable(orders) == [s \in Symbols |-> ModeFilter(s, orders[s])]

\* what is still to cancel and to create in the current state
Outstanding == calc_orders_to_cancel_and_create

\* execute_to_exchange has returned at least once and the loop waits for the next minute
TickEnded == pc = "idle" /\ tick.n >= 1

\* open_orders and the ideal set agree on every order the modes let the reconciler touch
Reconciled ==
    \A s \in Range(active_symbols) :
        KeysOf(Touchable(actual_orders)[s]) = KeysOf(Touchable(calc_ideal_orders)[s])

\* C1 (amended): when every request succeeds, each tick removes exactly the batches it
\* dispatched from what is outstanding and dispatches something while anything is
\* outstanding, so after finitely many ticks nothing is; open_orders then equals the
\* ideal set on (symbol, side, position_side, qty, price) for the orders the modes let the
\* reconciler touch, and a tick that follows a tick which dispatched everything
\* dispatches nothing.
C1_Convergence ==
    /\ [](TickEnded =>
            /\ Len(Outstanding.cancel) = Len(to_cancel) - Len(tick.sent_cancel)
            /\ Len(Outstanding.create) = Len(to_create) - Len(tick.sent_create)
            /\ (to_cancel # <<>> => tick.sent_cancel # <<>>)
            /\ (to_create # <<>> => tick.sent_create # <<>>)
            /\ (Outstanding.cancel = <<>> /\ Outstanding.create = <<>> => Reconciled))
    /\ [][(/\ Compose
           /\ tick.n >= 2
           /\ Len(to_cancel) <= config.max_n_cancellations_per_batch
           /\ Len(to_create) <= config.max_n_creations_per_batch)
          => (to_cancel' = <<>> /\ to_create' = <<>>)]_vars

\* a later tick dispatched nothing after the loop cancelled a resting order and created one
C1_Witness ==
    /\ TickEnded
    /\ tick.n >= 2
    /\ tick.sent_cancel = <<>>
    /\ tick.sent_create = <<>>
    /\ Reconciled
    /\ \E x \in Range(start_orders) : ~OnExchange(x.id)
    /\ \E x \in Range(ex_orders) : x.id > Len(start_orders)

\* C1 as stated: once a tick dispatches nothing, open_orders equals the whole ideal set
C1_AsStated ==
    (TickEnded /\ tick.n >= 2 /\ tick.sent_cancel = <<>> /\ tick.sent_create = <<>>)
        => \A s \in Range(active_symbols) :
              KeysOf(actual_orders[s]) = KeysOf(calc_ideal_orders[s])

\* the ideal orders of all active symbols, and those the modes let the reconciler create
AllIdeal == ConcatOver(active_symbols, calc_ideal_orders)

Creatable == ConcatOver(active_symbols, Touchable(calc_ideal_orders))

AllOpen == ConcatOver(active_symbols, actual_orders)

\* open_orders holds Min(number of wanted orders, ticks * max_n_creations_per_batch) of the
\* wanted orders, and none of the missing ones is closer to its last price than a present one
ClosestBatches(wanted) ==
    /\ KeysOf(AllOpen) \subseteq KeysOf(wanted)
    /\ Len(AllOpen) = Min(Len(wanted), tick.n * config.max_n_creations_per_batch)
    /\ \A x \in Range(wanted), y \in Range(wanted) :
          (OrderKey(x) \in KeysOf(AllOpen) /\ OrderKey(y) \notin KeysOf(AllOpen))
              => ~DiffLess(OrderDist(y), OrderDist(x))

\* C2 (amended): from an exchange without open orders and with N ideal orders that the
\* modes let the reconciler create, after n successful ticks open_orders holds the
\* Min(N, n * max_n_creations_per_batch) of them closest to their last price: the
\* truncated set after one tick, all N after ceil(N / max_n_creations_per_batch) ticks.
C2_Batches == (TickEnded /\ start_orders = <<>>) => ClosestBatches(Creatable)

\* the second tick completed an ideal set larger than one batch
C2_Witness ==
    /\ TickEnded
    /\ start_orders = <<>>
    /\ tick.n = 2
    /\ Len(Creatable) > config.max_n_creations_per_batch
    /\ tick.sent_create # <<>>
    /\ Len(AllOpen) = Len(Creatable)
    /\ \E x \in Range(AllOpen), y \in Range(AllOpen) : x.symbol # y.symbol

\* C2 as stated: the same of the whole ideal set
C2_AsStated == (TickEnded /\ start_orders = <<>>) => ClosestBatches(AllIdeal)

----------------------------------------------------------------------------
(* Properties of calc_orders_to_cancel_and_create and calc_ideal_orders.    *)
(* After Compose, to_cancel, to_create and composed hold what they returned *)
(* for the open_orders, positions and modes of the same state.              *)

Diffed == pc = "cancelling" /\ tick.composed

\* the two orders agree on symbol, side, position_side, qty and price
Matches(a, i) ==
    /\ a.symbol = i.symbol
    /\ a.side = i.side
    /\ a.position_side = i.position_side
    /\ a.qty = i.qty
    /\ a.price = i.price

\* the two orders agree on symbol, side, position_side and price
SameSlot(a, i) ==
    /\ a.symbol = i.symbol
    /\ a.side = i.side
    /\ a.position_side = i.position_side
    /\ a.price = i.price

Of(orders, s) == SelectSeqBy(orders, {x \in Range(orders) : x.symbol = s})

NoDuplicates(orders) == Cardinality(Range(orders)) = Len(orders)

Unfiltered(s) ==
    \A pside \in PSideSet : live_configs[s][pside].mode \notin {"manual", "tp_only"}

\* C3: for an active symbol with no side in manual or tp_only, to_cancel holds exactly the
\* actual orders that match no ideal order and to_create exactly the ideal orders that
\* match no actual order; when actual and ideal match each other both are empty; and when
\* the only actual and the only ideal order of a side at a price differ in qty, the one is
\* cancelled and the other created.
C3_Diff ==
    Diffed =>
      \A s \in Range(active_symbols) : Unfiltered(s) =>
        LET actual == actual_orders[s]
            ideal == composed[s]
        IN /\ Range(Of(to_cancel, s))
                = {a \in Range(actual) : \A i \in Range(ideal) : ~Matches(a, i)}
           /\ Range(Of(to_create, s))
                = {i \in Range(ideal) : \A a \in Range(actual) : ~Matches(a, i)}
           /\ NoDuplicates(Of(to_cancel, s))
           /\ NoDuplicates(Of(to_create, s))
           /\ ((/\ \A a \in Range(actual) : \E i \in Range(ideal) : Matches(a, i)
                /\ \A i \in Range(ideal) : \E a \in Range(actual) : Matches(a, i))
                 => (Of(to_cancel, s) = <<>> /\ Of(to_create, s) = <<>>))
           /\ \A a \in Range(actual), i \in Range(ideal) :
                (/\ SameSlot(a, i)
                 /\ a.qty # i.qty
                 /\ \A b \in Range(actual) : SameSlot(b, i) => b = a
                 /\ \A j \in Range(ideal) : SameSlot(a, j) => j = i)
                  => (a \in Range(to_cancel) /\ i \in Range(to_create))

\* an actual order is kept because it matches, another is replaced because its qty differs
C3_Witness ==
    /\ Diffed
    /\ Unfiltered("A")
    /\ \E a \in Range(actual_orders["A"]), i \in Range(composed["A"]) :
          /\ SameSlot(a, i)
          /\ a.qty # i.qty
          /\ a \in Range(to_cancel)
          /\ i \in Range(to_create)
    /\ \E a \in Range(actual_orders["A"]), i \in Range(composed["A"]) :
          Matches(a, i) /\ a \notin Range(to_cancel)

----------------------------------------------------------------------------
(* Properties of one execution tick *)

AllRefreshes == Gather1 \cup Gather2 \cup {"update_PB_modes"}

OpenIds == UNION {OrderIds(s) : s \in Symbols}

\* C4: in every tick the ideal orders are composed and diffed only when every refresh
\* (open orders, positions, pnls, exchange configs, 1m candles, tickers, modes) has
\* finished; the exchange cancels an order only after the diff; and it is sent a creation
\* only when the whole cancellation batch has returned and every cancelled order of the
\* batch has been removed from open_orders.
C4_Phases ==
    [][/\ (to_cancel' # to_cancel \/ to_create' # to_create \/ composed' # composed)
            => (pc = "compose" /\ tick.refreshed = AllRefreshes)
       /\ Len(ex_orders') < Len(ex_orders)
            => (/\ pc = "cancelling"
                /\ tick.composed
                /\ tick.refreshed = AllRefreshes
                /\ ~tick.cancels_applied
                /\ tick.sent_create = <<>>)
       /\ next_id' # next_id
            => (/\ pc = "creating"
                /\ tick.composed
                /\ \A c \in Range(tick.sent_cancel) : OnExchange(c.id) \/ c.id \notin OpenIds)
      ]_vars

\* a creation has been accepted after a cancellation of the same tick was applied
C4_Witness ==
    /\ pc = "creating"
    /\ \E c \in Range(tick.sent_cancel) : ~OnExchange(c.id) /\ c.id \notin OpenIds
    /\ \E i \in 1..Len(executions) : executions[i].status = "done"

\* C5: the cancellation requests of a tick are at most max_n_cancellations_per_batch and
\* its creation requests at most max_n_creations_per_batch, whatever the lengths of
\* to_cancel and to_create.
C5_Caps ==
    /\ Len(tick.sent_cancel) <= config.max_n_cancellations_per_batch
    /\ Len(tick.sent_create) <= config.max_n_creations_per_batch
    /\ pc = "cancelling" =>
          (/\ Len(executions) <= config.max_n_cancellations_per_batch
           /\ Len(executions) = Len(tick.sent_cancel))
    /\ pc = "creating" =>
          (/\ Len(executions) <= config.max_n_creations_per_batch
           /\ Len(executions) = Len(tick.sent_create))

\* both lists were longer than their caps and both batches were cut to them
C5_Witness ==
    /\ pc = "creating"
    /\ Len(to_cancel) > config.max_n_cancellations_per_batch
    /\ Len(to_create) > config.max_n_creations_per_batch
    /\ Len(tick.sent_cancel) = config.max_n_cancellations_per_batch
    /\ Len(executions) = config.max_n_creations_per_batch

----------------------------------------------------------------------------
(* Properties of the mode filters *)

OtherSide(pside) == IF pside = "long" THEN "short" ELSE "long"

OnSide(x, s, pside) == x.symbol = s /\ x.position_side = pside

\* the actual orders of a side that match no ideal order, the ideal ones that match no actual
Unmatched(s, pside) ==
    [cancel |-> {a \in Range(actual_orders[s]) :
                    a.position_side = pside /\ \A i \in Range(composed[s]) : ~Matches(a, i)},
     create |-> {i \in Range(composed[s]) :
                    i.position_side = pside /\ \A a \in Range(actual_orders[s]) : ~Matches(a, i)}]

\* C6: for a side in manual mode neither to_cancel, to_create nor the batches taken from
\* them hold an order of that symbol and side; the other side of the symbol, unless its
\* own mode filters it, keeps every unmatched order in to_cancel and to_create.
C6_Manual ==
    Diffed =>
      \A s \in Range(active_symbols), pside \in PSideSet :
        live_configs[s][pside].mode = "manual" =>
          /\ \A x \in Range(to_cancel) \cup Range(to_create) \cup Range(tick.sent_cancel)
                        \cup Range(CreateBatch(to_create)) : ~OnSide(x, s, pside)
          /\ live_configs[s][OtherSide(pside)].mode \notin {"manual", "tp_only"}
               => /\ {x \in Range(to_cancel) : OnSide(x, s, OtherSide(pside))}
                       = Unmatched(s, OtherSide(pside)).cancel
                  /\ {x \in Range(to_create) : OnSide(x, s, OtherSide(pside))}
                       = Unmatched(s, OtherSide(pside)).create

\* A long is in manual mode with unmatched orders, A short has orders to cancel and create
C6_Witness ==
    /\ Diffed
    /\ live_configs["A"]["long"].mode = "manual"
    /\ Unmatched("A", "long").cancel # {}
    /\ Unmatched("A", "long").create # {}
    /\ \E x \in Range(to_cancel) : OnSide(x, "A", "short")
    /\ \E x \in Range(to_create) : OnSide(x, "A", "short")

\* C7: for a side in tp_only mode every order of that side in to_cancel, to_create and
\* the batches taken from them is reduce_only, so its entries are neither cancelled nor
\* created, and every unmatched reduce_only order of the side is in to_cancel or to_create.
C7_TpOnly ==
    Diffed =>
      \A s \in Range(active_symbols), pside \in PSideSet :
        live_configs[s][pside].mode = "tp_only" =>
          /\ \A x \in Range(to_cancel) \cup Range(to_create) \cup Range(tick.sent_cancel)
                        \cup Range(CreateBatch(to_create)) :
                OnSide(x, s, pside) => (x.reduce_only /\ IsReduceOnly(x.position_side, x.side))
          /\ {x \in Range(to_cancel) : OnSide(x, s, pside)}
                = {a \in Unmatched(s, pside).cancel : IsReduceOnly(a.position_side, a.side)}
          /\ {x \in Range(to_create) : OnSide(x, s, pside)}
                = {i \in Unmatched(s, pside).create : i.reduce_only}

\* A long is in tp_only mode: unmatched entries are left alone, closes are replaced
C7_Witness ==
    /\ Diffed
    /\ live_configs["A"]["long"].mode = "tp_only"
    /\ \E a \in Unmatched("A", "long").cancel : ~a.reduce_only /\ a \notin Range(to_cancel)
    /\ \E i \in Unmatched("A", "long").create : ~i.reduce_only /\ i \notin Range(to_create)
    /\ \E x \in Range(to_cancel) : OnSide(x, "A", "long")
    /\ \E x \in Range(to_create) : OnSide(x, "A", "long")

----------------------------------------------------------------------------
(* Properties of panic mode and of the cancellation batch *)

IdealOfSide(s, pside) == {i \in Range(composed[s]) : i.position_side = pside}

\* the one order of a side in panic mode: the whole position, reduce_only, at the touch
PanicOrder(s, pside) ==
    [symbol |-> s,
     side |-> IF pside = "long" THEN "sell" ELSE "buy",
     position_side |-> pside,
     qty |-> Abs(positions[s][pside].size),
     price |-> IF pside = "long" THEN tickers[s].ask ELSE tickers[s].bid,
     reduce_only |-> TRUE]

\* C8 as stated: the ideal orders of a side in panic mode are exactly one reduce_only
\* close of the whole position at the touch price (ask for long, bid for short) when the
\* side holds a position, and none when it does not.
C8_AsStated ==
    Diffed =>
      \A s \in Range(active_symbols), pside \in PSideSet :
        live_configs[s][pside].mode = "panic" =>
          IF has_position(s, pside)
          THEN /\ Cardinality(IdealOfSide(s, pside)) = 1
               /\ \A i \in IdealOfSide(s, pside) :
                     /\ Matches(i, PanicOrder(s, pside))
                     /\ i.reduce_only
          ELSE IdealOfSide(s, pside) = {}

\* the same, where no position of the symbol is stuck and no other order of the symbol
\* has the close's qty and price
C8_Undisturbed ==
    Diffed =>
      \A s \in Range(active_symbols), pside \in PSideSet :
        (/\ live_configs[s][pside].mode = "panic"
         /\ stuck_positions = <<>>
         /\ \A x \in Range(ComposedOrders[s]) :
               SeenKey(x) = SeenKey(PanicClose(s, pside)) => x = PanicClose(s, pside)) =>
          IF has_position(s, pside)
          THEN /\ Cardinality(IdealOfSide(s, pside)) = 1
               /\ \A i \in IdealOfSide(s, pside) :
                     /\ Matches(i, PanicOrder(s, pside))
                     /\ i.reduce_only
          ELSE IdealOfSide(s, pside) = {}

\* C9 as stated: when to_cancel is longer than max_n_cancellations_per_batch, no order
\* that is not reduce_only is sent for cancellation while a reduce_only order of to_cancel
\* is left out of the batch.
C9_AsStated ==
    (tick.composed /\ Len(to_cancel) > config.max_n_cancellations_per_batch) =>
        ~ /\ \E x \in Range(tick.sent_cancel) : ~x.reduce_only
          /\ \E y \in Range(to_cancel) : y.reduce_only /\ y \notin Range(tick.sent_cancel)

----------------------------------------------------------------------------
(* Properties of a batch in which a request fails *)

Failed(e) == e.status = "raised" \/ e.result = NoResult

BatchIds == {executions[i].order.id : i \in 1..Len(executions)}

----------------------------------------------------------------------------
(* The other tasks of the event loop: the maintainers that                  *)
(* start_data_maintainers creates and the websocket streams. They run only  *)
(* while the execution loop is suspended at an await.                       *)

\* number of steps the other tasks take in a behaviour of the model
MaxEvents == 2

\* variant: a scheduler that may switch tasks anywhere
Suspended_preemptive == TRUE

\* run_execution_loop is suspended: asyncio.sleep, the two gathers of
\* prepare_for_execution, the cancellation batch, the creation batch
Suspended == pc \in {"idle", "gather1", "gather2", "cancelling", "creating"}

\* composition and diff as two steps of calc_orders_to_cancel_and_create
ComposeIdeal ==
    /\ pc = "compose"
    /\ ~IdealRaises
    /\ composed' = calc_ideal_orders
    /\ pc' = "diff"
    /\ UNCHANGED <<orderflow, updates, trail, maint, mainvars, sched, markets, start_orders, faults, pnls, noisiness, eligible_symbols, bot, events, fin, config,
                   forced_modes, active_symbols, live_configs, positions, balance, tickers,
                   emas, grid, open_orders, fetched_positions, fetched_open_orders,
                   ex_orders, ex_positions, next_id, to_cancel, to_create, executions, tick>>

DiffOrders ==
    /\ pc = "diff"
    /\ to_cancel' = OrdersToCancelAndCreate(composed).cancel
    /\ to_create' = OrdersToCancelAndCreate(composed).create
    /\ executions' = Pending(CancelBatch(OrdersToCancelAndCreate(composed).cancel))
    /\ tick' = [tick EXCEPT !.composed = TRUE,
                            !.sent_cancel = CancelBatch(OrdersToCancelAndCreate(composed).cancel)]
    /\ pc' = "cancelling"
    /\ UNCHANGED <<orderflow, updates, trail, maint, mainvars, sched, markets, composed, start_orders, faults, pnls, noisiness, eligible_symbols, bot, events, fin,
                   config, forced_modes, active_symbols, live_configs, positions, balance,
                   tickers, emas, grid, open_orders, fetched_positions, fetched_open_orders,
                   ex_orders, ex_positions, next_id>>

\* tickers a stream may deliver for a symbol
TickerUpdates(s) ==
    IF s = "A" THEN {[bid |-> 3, ask |-> 4, last |-> 3], [bid |-> 2, ask |-> 3, last |-> 2]}
    ELSE {[bid |-> 4, ask |-> 5, last |-> 4]}

\* handle_ticker_update: bid, ask and last of the symbol are overwritten
HandleTickerUpdate(s, upd) ==
    /\ Suspended
    /\ events < MaxEvents
    /\ events' = events + 1
    /\ upd # tickers[s]
    /\ tickers' = [tickers EXCEPT ![s] = upd]
    /\ UNCHANGED <<orderflow, updates, trail, maint, mainvars, sched, markets, composed, start_orders, faults, pnls, noisiness, eligible_symbols, bot, pc,
                   fin, config, forced_modes, active_symbols, live_configs, positions, balance,
                   emas, grid, open_orders, fetched_positions, fetched_open_orders, ex_orders,
                   ex_positions, next_id, to_cancel, to_create, executions, tick>>

\* watch_balance / handle_balance_update: self.balance is overwritten
HandleBalanceUpdate(total) ==
    /\ Suspended
    /\ events < MaxEvents
    /\ events' = events + 1
    /\ total # balance
    /\ balance' = total
    /\ UNCHANGED <<orderflow, updates, trail, maint, mainvars, sched, markets, composed, start_orders, faults, pnls, noisiness, eligible_symbols, bot, pc,
                   fin, config, forced_modes, active_symbols, live_configs, positions, tickers,
                   emas, grid, open_orders, fetched_positions, fetched_open_orders, ex_orders,
                   ex_positions, next_id, to_cancel, to_create, executions, tick>>

\* watch_orders / handle_order_update: an order expired on the exchange, status "canceled"
HandleOrderUpdate(i) ==
    /\ Suspended
    /\ events < MaxEvents
    /\ events' = events + 1
    /\ i \in 1..Len(ex_orders)
    /\ ex_orders' = SelectSeqBy(ex_orders, {x \in Range(ex_orders) : x.id # ex_orders[i].id})
    /\ open_orders' = remove_cancelled_order(open_orders, ex_orders[i])
    /\ UNCHANGED <<orderflow, updates, trail, maint, mainvars, sched, markets, composed, start_orders, faults, pnls, noisiness, eligible_symbols, bot, pc,
                   fin, config, forced_modes, active_symbols, live_configs, positions, balance,
                   tickers, emas, grid, fetched_positions, fetched_open_orders, ex_positions,
                   next_id, to_cancel, to_create, executions, tick>>

\* maintain_EMAs / update_EMAs_single: the EMAs of a symbol follow the last price
MaintainEMAs(s) ==
    /\ Suspended
    /\ events < MaxEvents
    /\ events' = events + 1
    /\ emas["long"][s] # [min |-> Min(3, tickers[s].last), max |-> Max(4, tickers[s].last)]
    /\ emas' = [pside \in PSideSet |->
                  [emas[pside] EXCEPT ![s] = [min |-> Min(3, tickers[s].last),
                                             max |-> Max(4, tickers[s].last)]]]
    /\ UNCHANGED <<orderflow, updates, trail, maint, mainvars, sched, markets, composed, start_orders, faults, pnls, noisiness, eligible_symbols, bot, pc,
                   fin, config, forced_modes, active_symbols, live_configs, positions, balance,
                   tickers, grid, open_orders, fetched_positions, fetched_open_orders,
                   ex_orders, ex_positions, next_id, to_cancel, to_create, executions, tick>>

\* maintain_market_info / init_markets_dict: set_live_configs copies config["bot"] again
MaintainMarketInfo ==
    /\ Suspended
    /\ events < MaxEvents
    /\ events' = events + 1
    /\ live_configs # [s \in Symbols |-> [pside \in PSideSet |-> LiveConfig]]
    /\ live_configs' = [s \in Symbols |-> [pside \in PSideSet |-> LiveConfig]]
    /\ tick' = [tick EXCEPT !.rebuilt = @ \/ pc \in {"gather1", "gather2"}]
    /\ UNCHANGED <<orderflow, updates, trail, maint, mainvars, sched, markets, composed, start_orders, faults, pnls, noisiness, eligible_symbols, bot, pc,
                   fin, config, forced_modes, active_symbols, positions, balance, tickers,
                   emas, grid, open_orders, fetched_positions, fetched_open_orders, ex_orders,
                   ex_positions, next_id, to_cancel, to_create, executions>>

\* the loop with the other tasks: A long holds a position, two orders rest
InitAsync ==
    /\ config = [max_n_cancellations_per_batch |-> 1, max_n_creations_per_batch |-> 2,
                 auto_gs |-> TRUE, price_distance_threshold |-> 200]
    /\ forced_modes = ForcedModes("normal")
    /\ ex_positions = ExchangePositions(2)
    /\ grid = Grids([entries |-> <<T(1, 1, "entry_grid_normal_long")>>,
                     closes |-> <<T(-1, 4, "close_grid_long"), T(-1, 5, "close_grid_long")>>],
                    NoGrid)
    /\ InitLoop(WithIds(<<X("A", "buy", "long", 1, 2), X("A", "sell", "long", 2, 4)>>))

NextAsync ==
    \/ StartTick
    \/ UpdateOpenOrdersOk
    \/ UpdatePositionsOk
    \/ \E name \in Gather1 : UpdateOther(name)
    \/ Gather1Returns
    \/ \E name \in Gather2 : UpdateMarket(name)
    \/ UpdatePBModes
    \/ ComposeIdeal
    \/ DiffOrders
    \/ \E i \in 1..2 : CancelOk(i)
    \/ \E i \in 1..2 : CancelFails(i)
    \/ CancellationsReturn
    \/ \E i \in 1..2 : CreateOk(i)
    \/ CreationsReturn
    \/ \E s \in Symbols : \E upd \in TickerUpdates(s) : HandleTickerUpdate(s, upd)
    \/ \E total \in {6, 100} : HandleBalanceUpdate(total)
    \/ \E i \in 1..2 : HandleOrderUpdate(i)
    \/ \E s \in Symbols : MaintainEMAs(s)
    \/ MaintainMarketInfo

SpecAsync == InitAsync /\ [][NextAsync]_vars

\* the state store the composition and the diff read
Store == <<positions, open_orders, tickers, live_configs, active_symbols, balance, emas>>

\* C11: from the start of the ideal-order composition to the end of the diff no
\* websocket handler and no maintainer changes positions, open_orders, tickers, modes,
\* live configs, balance or EMAs, and the diff that comes out is the diff of the ideal
\* orders of that same state.
C11_Snapshot ==
    [][/\ pc \in {"compose", "diff"} => Store' = Store
       /\ (pc = "diff" /\ pc' = "cancelling") =>
            /\ composed = calc_ideal_orders
            /\ to_cancel' = calc_orders_to_cancel_and_create.cancel
            /\ to_create' = calc_orders_to_cancel_and_create.create]_vars

\* the diff is about to run in a tick during whose refresh a ticker arrived and an order
\* expired after it was fetched
C11_Witness ==
    /\ pc = "diff"
    /\ tickers["A"].last = 2
    /\ GroupBySymbol(fetched_open_orders) # open_orders

----------------------------------------------------------------------------
(* calc_ideal_orders with stuck positions: A long, A short and B long hold  *)
(* positions of several sizes and prices, the balance makes them stuck or   *)
(* not, and the close grids start at or above the bleed price.              *)

\* pbr close grids of B long: the first close at or above B's bleed price 5
GridBPos ==
    {[entries |-> <<T(1, 2, "entry_grid_normal_long")>>, closes |-> <<T(-2, 5, "close_grid_long")>>],
     [entries |-> <<>>, closes |-> <<T(-2, 6, "close_grid_long")>>]}

\* positions the exchange may hold: (size, price) of A long, A short, B long
HeldALong == {<<0, 0>>, <<1, 3>>, <<2, 3>>, <<2, 6>>}
HeldAShort == {<<0, 0>>, <<2, 3>>}
HeldBLong == {<<0, 0>>, <<2, 4>>, <<2, 6>>}

Held(al, as, bl) ==
    [s \in Symbols |-> [pside \in PSideSet |->
        LET h == IF s = "A" THEN (IF pside = "long" THEN al ELSE as)
                 ELSE (IF pside = "long" THEN bl ELSE <<0, 0>>)
        IN [size |-> h[1], price |-> h[2]]]]

InitUnstuck ==
    /\ pc = "compose"
    /\ fin = {}
    /\ \E pdt \in {20, 200} :
         config = [max_n_cancellations_per_batch |-> 2, max_n_creations_per_batch |-> 2,
                   auto_gs |-> TRUE, price_distance_threshold |-> pdt]
    /\ \E ms \in {"normal", "panic"} :
         /\ forced_modes = [pside \in PSideSet |-> [s \in Symbols |->
                               IF s = "A" /\ pside = "short" THEN ms
                               ELSE IF s = "B" /\ pside = "short" THEN "graceful_stop"
                               ELSE "normal"]]
    /\ balance \in {6, 100}
    /\ tickers = [s \in Symbols |->
                    IF s = "A" THEN [bid |-> 3, ask |-> 4, last |-> 3]
                    ELSE [bid |-> 4, ask |-> 5, last |-> 4]]
    /\ emas = [pside \in PSideSet |-> [s \in Symbols |-> [min |-> 3, max |-> 4]]]
    /\ \E al \in HeldALong, as \in HeldAShort, bl \in HeldBLong :
         /\ ex_positions = Held(al, as, bl)
         /\ \E gl \in (IF al[1] = 0 THEN GridLongFlat ELSE GridLongPos),
               gs \in (IF as[1] = 0 THEN {NoGrid} ELSE GridShortPos),
               gb \in (IF bl[1] = 0 THEN {GridB} ELSE GridBPos) :
              grid = [s \in Symbols |-> [pside \in PSideSet |->
                        IF s = "A" THEN (IF pside = "long" THEN gl ELSE gs)
                        ELSE IF pside = "long" THEN gb ELSE NoGrid]]
    /\ positions = PositionsFrom(FetchPositions)
    /\ fetched_positions = FetchPositions
    /\ ex_orders = <<>>
    /\ next_id = 1
    /\ open_orders = GroupBySymbol(<<>>)
    /\ fetched_open_orders = <<>>
    /\ start_orders = <<>>
    /\ to_cancel = <<>>
    /\ to_create = <<>>
    /\ executions = <<>>
    /\ composed = [s \in Symbols |-> <<>>]
    /\ faults = 0
    /\ noisiness = SymbolOrder
    /\ eligible_symbols = Symbols
    /\ bot = [forager_mode |-> FALSE,
              n_positions |-> [pside \in PSideSet |-> 1],
              enabled |-> [pside \in PSideSet |-> TRUE]]
    /\ events = 0
    /\ OrdersIdle
    /\ UpdIdle
    /\ NoTrailing
    /\ MaintainIdle
    /\ MainIdle
    /\ NoSchedule
    /\ MarketsKnown
    /\ \E realized \in {0, -50} : pnls = [realized |-> realized, peak_balance |-> 100]
    /\ active_symbols = NewActiveSymbols
    /\ live_configs = [s \in Symbols |-> [pside \in PSideSet |->
                         [LiveConfig EXCEPT !.mode = NewMode(s, pside)]]]
    /\ tick = [NewTick(1) EXCEPT !.refreshed = Gather1 \cup Gather2 \cup {"update_PB_modes"}]

SpecUnstuck == InitUnstuck /\ [][NextPure]_vars

\* the unstuck closes of the ideal set, over all symbols
UnstuckOrders ==
    {i \in UNION {Range(composed[s]) : s \in Symbols} :
        i.custom_id \in {"unstuck_close_long", "unstuck_close_short"}}

\* the positions above their unstuck threshold
StuckSet == {sp \in Symbols \X PSideSet : IsStuck(sp[1], sp[2])}

\* C12: the ideal set of a tick holds at most one unstuck close, counted over all
\* symbols and both position sides.
C12_OneUnstuck == Diffed => Cardinality(UnstuckOrders) <= 1

\* two positions are stuck, both with a close above the bleed price, and one unstuck
\* close is in the ideal set
C12_Witness ==
    /\ Diffed
    /\ Cardinality(UnstuckOrders) = 1
    /\ {<<"A", "long">>, <<"B", "long">>} \subseteq StuckSet
    /\ grid["A"]["long"].closes[1].price = 5
    /\ grid["B"]["long"].closes[1].price = 6

\* wallet exposure / wallet_exposure_limit > unstuck_threshold, as the claims state it:
\* size * price * c_mult / balance > threshold * limit (limit and threshold in tenths)
OverThreshold(s, pside) ==
    Abs(positions[s][pside].size) * positions[s][pside].price * Market.c_mult * 100
      > live_configs[s][pside].unstuck_threshold
          * live_configs[s][pside].wallet_exposure_limit * balance

\* the close tuples the side had before the unstuck replacement
ClosesBefore(s, pside) == IdealCloses(ComposedOrders, s, pside)

Gap(s, pside) == calc_diff(positions[s][pside].price, tickers[s].last)

\* calc_unstucking_close passes over the stuck position: its side has no close, or the
\* first close is not beyond the bleed price, or the bleed qty is zero
PassedOver(s, pside) ==
    \/ ClosesBefore(s, pside) = <<>>
    \/ /\ pside = "long"
       /\ \/ UnstuckClosePrice(s, pside) >= ClosesBefore(s, pside)[1].price
          \/ UnstuckCloseQty(s, pside, UnstuckClosePrice(s, pside)) = 0

NotClosesOf(orders, pside) ==
    SelectSeqBy(orders, {x \in Range(orders) : ~(TagHasClose(x.tag) /\ TagHasPside(x.tag, pside))})

\* C15 as stated: when calc_unstucking_close selects a symbol and side, the replacement
\* changes only that side's closes of that symbol: the symbol's entries and the closes of
\* its other side stay, followed by the bleed close, and every other symbol is untouched.
C15_AsStated ==
    LET u == calc_unstucking_close(ComposedOrders)
        pside == IF TagHasLong(u.close.tag) THEN "long" ELSE "short"
    IN (Diffed /\ ~u.raised /\ u.close.qty # 0) =>
         \A s \in Symbols :
           WithUnstuck(ComposedOrders)[s] =
             IF s = u.symbol
             THEN NotClosesOf(ComposedOrders[s], pside) \o <<u.close>>
             ELSE ComposedOrders[s]

\* the loss a long close realizes: qty * (position price - close price) * c_mult
ExpectedLoss(i) ==
    Max(0, (positions[i.symbol][i.position_side].price - i.price) * i.qty * Market.c_mult)

\* C16 as stated: no unstuck close whose expected realized loss would take the realized
\* PnL of the lookback window below -unstuck_loss_allowance_pct * peak balance is in the
\* ideal set.
C16_AsStated ==
    Diffed =>
      \A i \in UnstuckOrders :
        ExpectedLoss(i) > 0 =>
          (pnls.realized - ExpectedLoss(i)) * 100
            >= -(live_configs[i.symbol][i.position_side].unstuck_loss_allowance_pct
                  * pnls.peak_balance)

\* C17: in the ideal set and in the reconciler's actual set an order is reduce_only
\* exactly when it sells on the long side or buys on the short side; every order whose
\* tag is a close (grid, trailing, panic, unstuck) is reduce_only and every entry is not.
C17_ReduceOnly ==
    Diffed =>
      \A s \in Symbols :
        /\ \A i \in Range(composed[s]) :
             /\ i.reduce_only <=> \/ i.position_side = "long" /\ i.side = "sell"
                                  \/ i.position_side = "short" /\ i.side = "buy"
             /\ i.custom_id \in CloseTags => i.reduce_only
             /\ i.custom_id \in EntryTags => ~i.reduce_only
        /\ \A a \in Range(actual_orders[s]) \cup Range(to_cancel) :
             a.reduce_only <=> \/ a.position_side = "long" /\ a.side = "sell"
                               \/ a.position_side = "short" /\ a.side = "buy"

\* the ideal set of A holds a panic close of the long side and an entry of the short
\* side, the actual set a reduce_only and another order
C17_Witness ==
    /\ Diffed
    /\ \E i \in Range(composed["A"]) : i.custom_id = "panic_close_long" /\ i.reduce_only
    /\ \E i \in Range(composed["A"]) : i.position_side = "short" /\ ~i.reduce_only
    /\ \E a \in Range(actual_orders["A"]) : a.reduce_only
    /\ \E a \in Range(actual_orders["A"]) : ~a.reduce_only


----------------------------------------------------------------------------
(* update_PB_modes over drawn configurations: forced modes, symbols with   *)
(* positions, the noisiness ranking, the eligible symbols, n_positions,    *)
(* auto_gs, and the forager switch.                                        *)

MaxSlots == 2

\* forced modes of the long sides of A and B and of the short side of A
ForcedDrawn(fa, fb, fs) ==
    [pside \in PSideSet |-> [s \in Symbols |->
        IF pside = "long" THEN (IF s = "A" THEN fa ELSE fb)
        ELSE IF s = "A" THEN fs ELSE "none"]]

InitModes ==
    /\ pc = "gather2"
    /\ fin = Gather2
    /\ \E auto_gs \in BOOLEAN :
         config = [max_n_cancellations_per_batch |-> 2, max_n_creations_per_batch |-> 2,
                   auto_gs |-> auto_gs, price_distance_threshold |-> 200]
    /\ \E fa \in {"none", "normal", "tp_only"}, fb \in {"none", "normal", "panic"},
          fs \in {"none", "normal"} :
         forced_modes = ForcedDrawn(fa, fb, fs)
    /\ active_symbols = <<>>
    /\ live_configs = [s \in Symbols |-> [pside \in PSideSet |-> LiveConfig]]
    /\ balance = 100
    /\ tickers = [s \in Symbols |->
                    IF s = "A" THEN [bid |-> 3, ask |-> 4, last |-> 3]
                    ELSE [bid |-> 4, ask |-> 5, last |-> 4]]
    /\ emas = [pside \in PSideSet |-> [s \in Symbols |-> [min |-> 3, max |-> 4]]]
    /\ \E al \in {<<0, 0>>, <<2, 3>>}, as \in {<<0, 0>>, <<2, 3>>}, bl \in {<<0, 0>>, <<2, 4>>} :
         ex_positions = Held(al, as, bl)
    /\ grid = Grids(NoGrid, NoGrid)
    /\ positions = PositionsFrom(FetchPositions)
    /\ fetched_positions = FetchPositions
    /\ ex_orders = <<>>
    /\ next_id = 1
    /\ open_orders = GroupBySymbol(<<>>)
    /\ fetched_open_orders = <<>>
    /\ start_orders = <<>>
    /\ to_cancel = <<>>
    /\ to_create = <<>>
    /\ executions = <<>>
    /\ composed = [s \in Symbols |-> <<>>]
    /\ faults = 0
    /\ pnls = [realized |-> 0, peak_balance |-> 100]
    /\ noisiness \in {SymbolOrder, <<"B", "A">>}
    /\ eligible_symbols \in SUBSET Symbols
    /\ \E forager_mode \in BOOLEAN, n \in 0..MaxSlots, enabled \in BOOLEAN :
         bot = [forager_mode |-> forager_mode,
                n_positions |-> [pside \in PSideSet |-> n],
                enabled |-> [pside \in PSideSet |-> (pside = "short" \/ enabled)]]
    /\ events = 0
    /\ OrdersIdle
    /\ UpdIdle
    /\ NoTrailing
    /\ MaintainIdle
    /\ MainIdle
    /\ NoSchedule
    /\ MarketsKnown
    /\ tick = [NewTick(1) EXCEPT !.refreshed = Gather1 \cup Gather2]

NextModes == UpdatePBModes

SpecModes == InitModes /\ [][NextModes]_vars

\* update_PB_modes has returned
ModesSet == pc = "compose" /\ "update_PB_modes" \in tick.refreshed

NoForcedModes == \A pside \in PSideSet, s \in Symbols : ~Forced(pside, s)

Active == Range(active_symbols)

\* C18 as stated: every active symbol and side with a configured forced mode
\* is assigned that forced mode, whether or not the side has a position or
\* an open order
C18_AsStated ==
    ModesSet =>
        \A s \in Active, pside \in PSideSet :
            Forced(pside, s) => live_configs[s][pside].mode = forced_modes[pside][s]

\* the symbols in normal mode on pside
InNormal(pside) == {s \in Active : live_configs[s][pside].mode = "normal"}

\* the symbols with a position or order on pside that hold a slot
SlotHolders(pside) ==
    {s \in Active \cap actual_actives(pside) :
        live_configs[s][pside].mode \in {"normal", "graceful_stop"}}

\* the symbols without position or order that were put in normal before s
AddedBefore(pside, s) ==
    {noisiness[i] : i \in {j \in 1..Len(noisiness) :
        /\ noisiness[j] \in InNormal(pside) \ actual_actives(pside)
        /\ \E k \in (j + 1)..Len(noisiness) : noisiness[k] = s}}

\* C19: in forager mode with no forced modes, at most n_positions symbols of
\* a side are in normal mode, and a symbol without position or open order is
\* in normal only if fewer than n_positions slots were taken when it was
\* added: those of the symbols with a position or order in normal or
\* graceful_stop, and those of the symbols added before it
C19_ForagerSlots ==
    (ModesSet /\ bot.forager_mode /\ NoForcedModes) =>
        \A pside \in PSideSet :
            /\ Cardinality(InNormal(pside)) <= bot.n_positions[pside]
            /\ \A s \in InNormal(pside) \ actual_actives(pside) :
                 Cardinality(SlotHolders(pside)) + Cardinality(AddedBefore(pside, s))
                     < bot.n_positions[pside]

\* a ranked symbol without a position is refused a slot that a symbol in
\* graceful_stop holds, and another one is given a free slot
C19_Witness ==
    /\ ModesSet /\ bot.forager_mode /\ NoForcedModes
    /\ bot.n_positions["long"] = 1
    /\ noisiness = <<"B", "A">>
    /\ eligible_symbols = Symbols
    /\ actual_actives("long") = {"A"}
    /\ live_configs["A"]["long"].mode = "graceful_stop"
    /\ live_configs["B"]["long"].mode # "normal"
    /\ live_configs["B"]["short"].mode = "normal"

\* C20: a symbol and side with a position or open order, without forced mode
\* and outside the ideal set, is assigned graceful_stop when auto_gs is true
\* and manual when it is false
C20_StopOrManual ==
    ModesSet =>
        \A pside \in PSideSet : \A s \in actual_actives(pside) :
            (~Forced(pside, s) /\ s \notin Range(ideal_actives(pside))) =>
                /\ s \in Active
                /\ live_configs[s][pside].mode =
                       (IF config.auto_gs THEN "graceful_stop" ELSE "manual")

\* without forager, a held long side that is not enabled goes to manual
C20_Witness ==
    /\ ModesSet /\ ~bot.forager_mode /\ ~config.auto_gs
    /\ "A" \in actual_actives("long") /\ ~Forced("long", "A")
    /\ "A" \notin Range(ideal_actives("long"))
    /\ live_configs["A"]["long"].mode = "manual"


----------------------------------------------------------------------------
(* check_for_inactive_markets, called by update_positions and              *)
(* update_open_orders after the fetch.  A market is "active" (listed,      *)
(* active and eligible), "inactive" (listed, not active), "ineligible"     *)
(* (listed and active, of the wrong type or quote) or "none" (not listed;  *)
(* in markets_dict: not a key).  The configuration has no per-symbol flags *)
(* and no forced_mode_long / forced_mode_short.                            *)

\* symbols of self.fetched_positions + self.fetched_open_orders
HeldSymbols == actual_actives("long") \cup actual_actives("short")

ineligible_symbols_with_pos ==
    {s \in HeldSymbols : markets_dict[s] = "none" \/ markets_dict[s] = "inactive"}

\* self.markets_dict when init_markets_dict has removed the ineligible
\* markets and added back those of ineligible_symbols_with_pos
NewMarketsDict ==
    [s \in Symbols |->
        IF ex_markets[s] = "active" THEN "active"
        ELSE IF s \in ineligible_symbols_with_pos /\ ex_markets[s] # "none" THEN ex_markets[s]
        ELSE "none"]

\* the symbols init_markets_dict appends to config["live"]["ignored_symbols"]
AddedBack ==
    {s \in ineligible_symbols_with_pos : ex_markets[s] \notin {"active", "none"}}

\* self.forced_modes as init_flags computes it
InitFlags(md, ignored) ==
    [pside \in PSideSet |-> [s \in Symbols |->
        IF md[s] = "none" THEN "none"
        ELSE IF md[s] = "inactive" THEN "tp_only"
        ELSE IF s \in ignored THEN DefaultMode
        ELSE "none"]]

\* a position or order in a market that is not eligible: init_markets_dict,
\* which ends with init_flags and set_live_configs
CheckForInactiveMarkets ==
    /\ pc = "check"
    /\ ineligible_symbols_with_pos # {}
    /\ markets_dict' = NewMarketsDict
    /\ ignored_symbols' = ignored_symbols \cup AddedBack
    /\ forced_modes' = InitFlags(NewMarketsDict, ignored_symbols \cup AddedBack)
    /\ live_configs' = [s \in Symbols |-> [pside \in PSideSet |-> LiveConfig]]
    /\ pc' = "flags"
    /\ UNCHANGED <<orderflow, updates, trail, maint, mainvars, sched, ex_markets, composed, start_orders, faults, pnls, noisiness,
                   eligible_symbols, bot, events, fin, config, active_symbols, positions,
                   balance, tickers, emas, grid, open_orders, fetched_positions,
                   fetched_open_orders, ex_orders, ex_positions, next_id, to_cancel,
                   to_create, executions, tick>>

\* the rest of check_for_inactive_markets: init_flags, set_live_configs and
\* update_PB_modes; then the gathers of prepare_for_execution return
RefreshModes ==
    /\ pc = "flags"
    /\ forced_modes' = InitFlags(markets_dict, ignored_symbols)
    /\ active_symbols' = NewActiveSymbols
    /\ live_configs' = NewLiveConfigs
    /\ pc' = "gather2"
    /\ fin' = Gather2
    /\ UNCHANGED <<orderflow, updates, trail, maint, mainvars, sched, markets, composed, start_orders, faults, pnls, noisiness,
                   eligible_symbols, bot, events, config, positions,
                   balance, tickers, emas, grid, open_orders, fetched_positions,
                   fetched_open_orders, ex_orders, ex_positions, next_id, to_cancel,
                   to_create, executions, tick>>

\* every position and order is in an eligible market
MarketsUnchanged ==
    /\ pc = "check"
    /\ ineligible_symbols_with_pos = {}
    /\ pc' = "gather2"
    /\ fin' = Gather2
    /\ UNCHANGED <<orderflow, updates, trail, maint, mainvars, sched, markets, composed, start_orders, faults, pnls, noisiness,
                   eligible_symbols, bot, events, config, forced_modes, active_symbols,
                   live_configs, positions, balance, tickers, emas, grid, open_orders,
                   fetched_positions, fetched_open_orders, ex_orders, ex_positions, next_id,
                   to_cancel, to_create, executions, tick>>

\* update_positions has fetched; B may have left the eligible markets and
\* A long and B long may hold a position
InitMarkets ==
    /\ pc = "check"
    /\ fin = {}
    /\ \E auto_gs \in BOOLEAN :
         config = [max_n_cancellations_per_batch |-> 2, max_n_creations_per_batch |-> 2,
                   auto_gs |-> auto_gs, price_distance_threshold |-> 200]
    /\ \E listed \in {"active", "inactive", "ineligible"} :
         ex_markets = [s \in Symbols |-> IF s = "B" THEN listed ELSE "active"]
    /\ \E known \in {"active", "none"} :
         markets_dict = [s \in Symbols |-> IF s = "B" THEN known ELSE "active"]
    /\ ignored_symbols = {}
    /\ forced_modes = InitFlags(markets_dict, ignored_symbols)
    /\ active_symbols = <<>>
    /\ live_configs = [s \in Symbols |-> [pside \in PSideSet |-> LiveConfig]]
    /\ balance = 100
    /\ tickers = [s \in Symbols |->
                    IF s = "A" THEN [bid |-> 3, ask |-> 4, last |-> 3]
                    ELSE [bid |-> 4, ask |-> 5, last |-> 4]]
    /\ emas = [pside \in PSideSet |-> [s \in Symbols |-> [min |-> 3, max |-> 4]]]
    /\ \E al \in {<<0, 0>>, <<2, 3>>}, bl \in {<<0, 0>>, <<2, 4>>} :
         ex_positions = Held(al, <<0, 0>>, bl)
    /\ grid = Grids(NoGrid, NoGrid)
    /\ positions = PositionsFrom(FetchPositions)
    /\ fetched_positions = FetchPositions
    /\ ex_orders = <<>>
    /\ next_id = 1
    /\ open_orders = GroupBySymbol(<<>>)
    /\ fetched_open_orders = <<>>
    /\ start_orders = <<>>
    /\ to_cancel = <<>>
    /\ to_create = <<>>
    /\ executions = <<>>
    /\ composed = [s \in Symbols |-> <<>>]
    /\ faults = 0
    /\ pnls = [realized |-> 0, peak_balance |-> 100]
    /\ noisiness \in {SymbolOrder, <<"B", "A">>}
    /\ eligible_symbols \in {Symbols, {"A"}}
    /\ \E forager_mode \in BOOLEAN, n \in 1..MaxSlots :
         bot = [forager_mode |-> forager_mode,
                n_positions |-> [pside \in PSideSet |-> n],
                enabled |-> [pside \in PSideSet |-> TRUE]]
    /\ events = 0
    /\ OrdersIdle
    /\ UpdIdle
    /\ NoTrailing
    /\ MaintainIdle
    /\ MainIdle
    /\ NoSchedule
    /\ tick = [NewTick(1) EXCEPT !.refreshed = Gather1 \cup Gather2]

NextMarkets ==
    \/ CheckForInactiveMarkets
    \/ RefreshModes
    \/ MarketsUnchanged
    \/ UpdatePBModes

SpecMarkets == InitMarkets /\ [][NextMarkets]_vars

\* C21 as stated: a market with a position or open order that the exchange
\* does not list as active and eligible, and that the bot does not hold for
\* active, is a key of markets_dict and an ignored symbol after the check,
\* and if it is inactive both of its sides have mode tp_only after the
\* following mode update
C21_AsStated ==
    ModesSet =>
        \A s \in HeldSymbols :
            (ex_markets[s] # "active" /\ markets_dict[s] # "active") =>
                /\ markets_dict[s] # "none"
                /\ s \in ignored_symbols
                /\ ex_markets[s] = "inactive" =>
                     \A pside \in PSideSet : live_configs[s][pside].mode = "tp_only"


----------------------------------------------------------------------------
(* The schedule of run_execution_loop.  Time is utc_ms() in units of 5     *)
(* seconds.  The loop polls the clock every 0.1 seconds, so it polls at    *)
(* least once in every unit; execute_to_exchange takes any time.  The      *)
(* path start_bot takes never reads or writes previous_execution_ts,       *)
(* execution_delay_millis or error_counts, and never writes recent_fill.   *)

Minute == 12
ErrorSleep == 1
Hour == 720
max_n_errors_per_hour == 10

\* self.execution_delay_millis for execution_delay_seconds = 10
execution_delay_millis == 2

MaxClock == 140

now_minute == now \div Minute

\* time passes; asyncio.sleep(0.1) and asyncio.sleep(5.0) are over one unit later
Advance ==
    /\ pc \in {"sleep", "sleep_error", "execute"}
    /\ now < MaxClock
    /\ now' = now + 1
    /\ pc' = IF pc = "execute" THEN "execute" ELSE "poll"
    /\ history' = [history EXCEPT
                     !.since_done = IF @ < execution_delay_millis THEN @ + 1 ELSE @]
    /\ UNCHANGED <<orderflow, updates, trail, maint, mainvars, prev_minute, recent_fill, markets, composed, start_orders, faults, pnls,
                   noisiness, eligible_symbols, bot, events, fin, config, forced_modes,
                   active_symbols, live_configs, positions, balance, tickers, emas, grid,
                   open_orders, fetched_positions, fetched_open_orders, ex_orders,
                   ex_positions, next_id, to_cancel, to_create, executions, tick>>

Poll_forgetful ==
    /\ pc = "poll"
    /\ IF now_minute # prev_minute
       THEN /\ prev_minute' = prev_minute
            /\ pc' = "execute"
            /\ history' = [history EXCEPT !.began_with_fill = recent_fill,
                                           !.started = now_minute,
                                           !.running = @ + 1]
       ELSE /\ pc' = "sleep"
            /\ UNCHANGED <<prev_minute, history>>
    /\ UNCHANGED <<orderflow, updates, trail, maint, mainvars, now, recent_fill, markets, composed, start_orders, faults, pnls,
                   noisiness, eligible_symbols, bot, events, fin, config, forced_modes,
                   active_symbols, live_configs, positions, balance, tickers, emas, grid,
                   open_orders, fetched_positions, fetched_open_orders, ex_orders,
                   ex_positions, next_id, to_cancel, to_create, executions, tick>>

\* one iteration of run_execution_loop up to its first await
Poll ==
    /\ pc = "poll"
    /\ IF now_minute # prev_minute
       THEN /\ prev_minute' = now_minute
            /\ pc' = "execute"
            /\ history' = [history EXCEPT !.began_with_fill = recent_fill,
                                           !.started = now_minute,
                                           !.running = @ + 1]
       ELSE /\ pc' = "sleep"
            /\ UNCHANGED <<prev_minute, history>>
    /\ UNCHANGED <<orderflow, updates, trail, maint, mainvars, now, recent_fill, markets, composed, start_orders, faults, pnls,
                   noisiness, eligible_symbols, bot, events, fin, config, forced_modes,
                   active_symbols, live_configs, positions, balance, tickers, emas, grid,
                   open_orders, fetched_positions, fetched_open_orders, ex_orders,
                   ex_positions, next_id, to_cancel, to_create, executions, tick>>

\* execute_to_exchange returns
ExecuteReturns ==
    /\ pc = "execute"
    /\ pc' = "sleep"
    /\ history' = [history EXCEPT !.since_done = 0, !.running = @ - 1]
    /\ UNCHANGED <<orderflow, updates, trail, maint, mainvars, now, prev_minute, recent_fill, markets, composed, start_orders, faults,
                   pnls, noisiness, eligible_symbols, bot, events, fin, config, forced_modes,
                   active_symbols, live_configs, positions, balance, tickers, emas, grid,
                   open_orders, fetched_positions, fetched_open_orders, ex_orders,
                   ex_positions, next_id, to_cancel, to_create, executions, tick>>

\* execute_to_exchange raises: the loop logs the error and sleeps 5 seconds
ExecuteRaises ==
    /\ pc = "execute"
    /\ pc' = "sleep_error"
    /\ history' = [history EXCEPT
                     !.since_done = 0,
                     !.running = @ - 1,
                     !.errors = IF @ <= max_n_errors_per_hour THEN @ + 1 ELSE @]
    /\ UNCHANGED <<orderflow, updates, trail, maint, mainvars, now, prev_minute, recent_fill, markets, composed, start_orders, faults,
                   pnls, noisiness, eligible_symbols, bot, events, fin, config, forced_modes,
                   active_symbols, live_configs, positions, balance, tickers, emas, grid,
                   open_orders, fetched_positions, fetched_open_orders, ex_orders,
                   ex_positions, next_id, to_cancel, to_create, executions, tick>>

\* handle_order_update for an update that reports a fill, while the loop is
\* suspended
Fill ==
    /\ pc \in {"sleep", "sleep_error", "execute"}
    /\ ~recent_fill
    /\ recent_fill' = TRUE
    /\ UNCHANGED <<orderflow, updates, trail, maint, mainvars, now, prev_minute, history, pc, markets, composed, start_orders, faults,
                   pnls, noisiness, eligible_symbols, bot, events, fin, config, forced_modes,
                   active_symbols, live_configs, positions, balance, tickers, emas, grid,
                   open_orders, fetched_positions, fetched_open_orders, ex_orders,
                   ex_positions, next_id, to_cancel, to_create, executions, tick>>

\* run_execution_loop starts at any time of the first minute
InitSchedule ==
    /\ pc = "poll"
    /\ fin = {}
    /\ config = [max_n_cancellations_per_batch |-> 2, max_n_creations_per_batch |-> 2,
                 auto_gs |-> TRUE, price_distance_threshold |-> 200]
    /\ forced_modes = ForcedModes("normal")
    /\ active_symbols = <<>>
    /\ live_configs = [s \in Symbols |-> [pside \in PSideSet |-> LiveConfig]]
    /\ balance = 100
    /\ tickers = [s \in Symbols |->
                    IF s = "A" THEN [bid |-> 3, ask |-> 4, last |-> 3]
                    ELSE [bid |-> 4, ask |-> 5, last |-> 4]]
    /\ emas = [pside \in PSideSet |-> [s \in Symbols |-> [min |-> 3, max |-> 4]]]
    /\ ex_positions = ExchangePositions(0)
    /\ grid = Grids(NoGrid, NoGrid)
    /\ positions = PositionsFrom(FetchPositions)
    /\ fetched_positions = FetchPositions
    /\ ex_orders = <<>>
    /\ next_id = 1
    /\ open_orders = GroupBySymbol(<<>>)
    /\ fetched_open_orders = <<>>
    /\ start_orders = <<>>
    /\ to_cancel = <<>>
    /\ to_create = <<>>
    /\ executions = <<>>
    /\ composed = [s \in Symbols |-> <<>>]
    /\ faults = 0
    /\ pnls = [realized |-> 0, peak_balance |-> 100]
    /\ noisiness = SymbolOrder
    /\ eligible_symbols = Symbols
    /\ bot = [forager_mode |-> FALSE,
              n_positions |-> [pside \in PSideSet |-> 1],
              enabled |-> [pside \in PSideSet |-> TRUE]]
    /\ events = 0
    /\ OrdersIdle
    /\ UpdIdle
    /\ NoTrailing
    /\ MaintainIdle
    /\ MarketsKnown
    /\ MainIdle
    /\ now \in 0..(Minute - 1)
    /\ prev_minute = now_minute
    /\ recent_fill = FALSE
    /\ history = [began_with_fill |-> FALSE, since_done |-> execution_delay_millis,
                  errors |-> 0, restarted |-> <<>>,
                  started |-> -1, running |-> 0]
    /\ tick = NewTick(0)

NextSchedule ==
    \/ Advance
    \/ Poll
    \/ ExecuteReturns
    \/ ExecuteRaises
    \/ Fill

SpecSchedule == InitSchedule /\ [][NextSchedule]_vars

\* C22 as stated: the loop begins a tick at the first poll after a minute
\* boundary, and at the first poll after the recent-fill bit was set
C22_AsStated ==
    [][pc = "poll" /\ (now_minute # prev_minute \/ recent_fill) => pc' = "execute"]_vars

\* C23 as stated: a tick that began with the recent-fill bit set clears the
\* bit before it returns
C23_AsStated ==
    [][(pc = "execute" /\ pc' = "sleep" /\ history.began_with_fill) => ~recent_fill']_vars

\* C24 as stated: a tick begins no less than execution_delay_millis after
\* the previous tick ended
C24_AsStated ==
    [][(pc = "poll" /\ pc' = "execute") => history.since_done >= execution_delay_millis]_vars

\* C25 as stated: with more than max_n_errors_per_hour exceptions of ticks in
\* one hour the loop has aborted
C25_AsStated ==
    (now < Hour /\ history.errors > max_n_errors_per_hour) => pc = "aborted"


----------------------------------------------------------------------------
(* main: the retry loop around start_bot, with its cleanup.  Time is in    *)
(* units of 5 seconds as above; a run of the bot lasts no time, six hours  *)
(* or a day.                                                               *)

max_n_restarts_per_day == 5
cooldown_secs == 12
Day == 17280

MaxDays == 2

\* for key in self.maintainers: the order in which the tasks are created
MaintainerOrder == <<"maintain_market_info", "maintain_hlcs_15m", "maintain_EMAs">>

RecentRestarts_none(rs, t) == <<>>

\* restarts = [x for x in restarts if x > utc_ms() - 1000 * 60 * 60 * 24]
RecentRestarts(rs, t) == SelectSeq(rs, LAMBDA x : x > t - Day)

\* bot = setup_bot(config): a new bot with its two connections
SetupBot ==
    /\ pc = "setup"
    /\ pc' = "start"
    /\ maintainers' = [k \in MaintainerNames |-> "none"]
    /\ connections' = [c \in {"ccp", "cca"} |-> "open"]
    /\ UNCHANGED <<orderflow, updates, trail, maint, restarts, sched, markets, composed, start_orders, faults, pnls,
                   noisiness, eligible_symbols, bot, events, fin, config, forced_modes,
                   active_symbols, live_configs, positions, balance, tickers, emas, grid,
                   open_orders, fetched_positions, fetched_open_orders, ex_orders,
                   ex_positions, next_id, to_cancel, to_create, executions, tick>>

\* start_data_maintainers: the first n maintainer tasks are created; with
\* fewer than all of them an update call raised and start_bot raises
StartDataMaintainers(n) ==
    /\ pc = "start"
    /\ maintainers' = [k \in MaintainerNames |->
                         IF \E i \in 1..n : MaintainerOrder[i] = k THEN "running" ELSE "none"]
    /\ pc' = IF n = Len(MaintainerOrder) THEN "running" ELSE "cleanup"
    /\ UNCHANGED <<orderflow, updates, trail, maint, restarts, connections, sched, markets, composed, start_orders, faults,
                   pnls, noisiness, eligible_symbols, bot, events, fin, config, forced_modes,
                   active_symbols, live_configs, positions, balance, tickers, emas, grid,
                   open_orders, fetched_positions, fetched_open_orders, ex_orders,
                   ex_positions, next_id, to_cancel, to_create, executions, tick>>

\* start_bot ends after d units
BotStops(d) ==
    /\ pc = "running"
    /\ now + d <= MaxDays * Day
    /\ now' = now + d
    /\ pc' = "cleanup"
    /\ UNCHANGED <<orderflow, updates, trail, maint, mainvars, prev_minute, recent_fill, history, markets, composed,
                   start_orders, faults, pnls, noisiness, eligible_symbols, bot, events, fin,
                   config, forced_modes, active_symbols, live_configs, positions, balance,
                   tickers, emas, grid, open_orders, fetched_positions, fetched_open_orders,
                   ex_orders, ex_positions, next_id, to_cancel, to_create, executions, tick>>

\* stop_data_maintainers: every task that was created is cancelled
Stopped == [k \in MaintainerNames |->
              IF maintainers[k] = "running" THEN "cancelled" ELSE maintainers[k]]

\* the finally clause of main: stop_data_maintainers, ccp.close(), cca.close()
\* inside one try whose except passes; a close may raise
Cleanup(ccp_ok, cca_ok) ==
    /\ pc = "cleanup"
    /\ maintainers' = Stopped
    /\ connections' =
         IF ccp_ok
         THEN [c \in {"ccp", "cca"} |->
                 IF c = "ccp" \/ cca_ok THEN "closed" ELSE "close_failed"]
         ELSE [connections EXCEPT !["ccp"] = "close_failed"]
    /\ pc' = "countdown"
    /\ UNCHANGED <<orderflow, updates, trail, maint, restarts, sched, markets, composed, start_orders, faults, pnls,
                   noisiness, eligible_symbols, bot, events, fin, config, forced_modes,
                   active_symbols, live_configs, positions, balance, tickers, emas, grid,
                   open_orders, fetched_positions, fetched_open_orders, ex_orders,
                   ex_positions, next_id, to_cancel, to_create, executions, tick>>

\* the countdown of cooldown_secs, then the count of the restarts of the
\* last 24 hours
Countdown ==
    LET t == now + cooldown_secs
        rs == RecentRestarts(Append(restarts, t), t)
    IN /\ pc = "countdown"
       /\ now' = t
       /\ restarts' = rs
       /\ IF Len(rs) > max_n_restarts_per_day
          THEN /\ pc' = "done"
               /\ UNCHANGED history
          ELSE /\ pc' = "setup"
               /\ history' = [history EXCEPT !.restarted = Append(@, t)]
       /\ UNCHANGED <<orderflow, updates, trail, maint, maintainers, connections, prev_minute, recent_fill, markets, composed,
                      start_orders, faults, pnls, noisiness, eligible_symbols, bot, events,
                      fin, config, forced_modes, active_symbols, live_configs, positions,
                      balance, tickers, emas, grid, open_orders, fetched_positions,
                      fetched_open_orders, ex_orders, ex_positions, next_id, to_cancel,
                      to_create, executions, tick>>

InitMain ==
    /\ pc = "setup"
    /\ fin = {}
    /\ config = [max_n_cancellations_per_batch |-> 2, max_n_creations_per_batch |-> 2,
                 auto_gs |-> TRUE, price_distance_threshold |-> 200]
    /\ forced_modes = ForcedModes("normal")
    /\ active_symbols = <<>>
    /\ live_configs = [s \in Symbols |-> [pside \in PSideSet |-> LiveConfig]]
    /\ balance = 100
    /\ tickers = [s \in Symbols |->
                    IF s = "A" THEN [bid |-> 3, ask |-> 4, last |-> 3]
                    ELSE [bid |-> 4, ask |-> 5, last |-> 4]]
    /\ emas = [pside \in PSideSet |-> [s \in Symbols |-> [min |-> 3, max |-> 4]]]
    /\ ex_positions = ExchangePositions(0)
    /\ grid = Grids(NoGrid, NoGrid)
    /\ positions = PositionsFrom(FetchPositions)
    /\ fetched_positions = FetchPositions
    /\ ex_orders = <<>>
    /\ next_id = 1
    /\ open_orders = GroupBySymbol(<<>>)
    /\ fetched_open_orders = <<>>
    /\ start_orders = <<>>
    /\ to_cancel = <<>>
    /\ to_create = <<>>
    /\ executions = <<>>
    /\ composed = [s \in Symbols |-> <<>>]
    /\ faults = 0
    /\ pnls = [realized |-> 0, peak_balance |-> 100]
    /\ noisiness = SymbolOrder
    /\ eligible_symbols = Symbols
    /\ bot = [forager_mode |-> FALSE,
              n_positions |-> [pside \in PSideSet |-> 1],
              enabled |-> [pside \in PSideSet |-> TRUE]]
    /\ events = 0
    /\ OrdersIdle
    /\ UpdIdle
    /\ NoTrailing
    /\ MaintainIdle
    /\ MarketsKnown
    /\ NoSchedule
    /\ restarts = <<>>
    /\ maintainers = [k \in MaintainerNames |-> "none"]
    /\ connections = [c \in {"ccp", "cca"} |-> "open"]
    /\ tick = NewTick(0)

NextMain ==
    \/ SetupBot
    \/ \E n \in 0..Len(MaintainerOrder) : StartDataMaintainers(n)
    \/ \E d \in {0, Day \div 4, Day} : BotStops(d)
    \/ \E ccp_ok \in BOOLEAN, cca_ok \in BOOLEAN : Cleanup(ccp_ok, cca_ok)
    \/ Countdown

SpecMain == InitMain /\ [][NextMain]_vars

\* the restarts performed in the 24 hours up to the i-th one
RestartsUpTo(i) ==
    {j \in 1..Len(history.restarted) :
        /\ history.restarted[j] > history.restarted[i] - Day
        /\ history.restarted[j] <= history.restarted[i]}

\* C26: main restarts the bot no sooner than cooldown_secs after the bot
\* stopped, performs at most max_n_restarts_per_day restarts within any 24
\* hours, and has terminated exactly when the failures of the last 24 hours
\* exceed that cap
C26_Restarts ==
    /\ [][(pc = "countdown" /\ pc' = "setup") => now' >= now + cooldown_secs]_vars
    /\ [](\A i \in 1..Len(history.restarted) :
             Cardinality(RestartsUpTo(i)) <= max_n_restarts_per_day)
    /\ [](pc = "done" <=> Len(restarts) > max_n_restarts_per_day)

\* main has terminated after five restarts within a day, and main is running
\* after more than five restarts spread over more than a day
C26_Witness ==
    \/ pc = "done" /\ Len(history.restarted) = max_n_restarts_per_day
    \/ pc = "running" /\ Len(history.restarted) > max_n_restarts_per_day

\* C29 as stated: after the cleanup of main no maintainer task is left
\* running and neither connection is left open, whether or not a close raised
C29_AsStated ==
    pc = "countdown" =>
        /\ \A k \in MaintainerNames : maintainers[k] # "running"
        /\ \A c \in {"ccp", "cca"} : connections[c] # "open"


----------------------------------------------------------------------------
(* maintain_thing: the loop of each maintainer task, next to the loop of   *)
(* run_execution_loop.  The tasks take their steps at the instants of the  *)
(* clock; an update call and a tick last any number of units.              *)

MaxMaintain == 40

\* self.update_intervals, by maintainer
update_intervals ==
    [k \in MaintainerNames |->
       IF k = "maintain_market_info" THEN Hour
       ELSE IF k = "maintain_EMAs" THEN Hour \div 2
       ELSE Minute]

Due_always(k) == TRUE

\* utc_ms() - self.last_update_timestamps[function_name] > self.update_intervals[function_name]
Due(k) == now - last_update_timestamps[k] > update_intervals[k]

\* one iteration of the loop of maintain_thing up to its first await
MaintainPoll(k) ==
    /\ maintain_thing[k] = "poll"
    /\ IF Due(k)
       THEN /\ last_update_timestamps' = [last_update_timestamps EXCEPT ![k] = now]
            /\ maintain_thing' = [maintain_thing EXCEPT ![k] = "calling"]
            /\ attempts' = [attempts EXCEPT
                              ![k] = [began |-> now, ended |-> "pending", after |-> @.ended]]
       ELSE /\ maintain_thing' = [maintain_thing EXCEPT ![k] = "sleep"]
            /\ UNCHANGED <<last_update_timestamps, attempts>>
    /\ UNCHANGED <<orderflow, updates, trail, mainvars, sched, markets, composed, start_orders, faults, pnls, pc,
                   noisiness, eligible_symbols, bot, events, fin, config, forced_modes,
                   active_symbols, live_configs, positions, balance, tickers, emas, grid,
                   open_orders, fetched_positions, fetched_open_orders, ex_orders,
                   ex_positions, next_id, to_cancel, to_create, executions, tick>>

\* the update call returns: await asyncio.sleep(0.1)
UpdateReturns(k) ==
    /\ maintain_thing[k] = "calling"
    /\ maintain_thing' = [maintain_thing EXCEPT ![k] = "sleep"]
    /\ attempts' = [attempts EXCEPT ![k].ended = "returned"]
    /\ UNCHANGED <<orderflow, updates, trail, last_update_timestamps, mainvars, sched, markets, composed, start_orders,
                   faults, pnls, pc, noisiness, eligible_symbols, bot, events, fin, config,
                   forced_modes, active_symbols, live_configs, positions, balance, tickers,
                   emas, grid, open_orders, fetched_positions, fetched_open_orders,
                   ex_orders, ex_positions, next_id, to_cancel, to_create, executions, tick>>

\* the update call raises, a timeout of the exchange client included:
\* except Exception, await asyncio.sleep(5.0)
UpdateRaises(k) ==
    /\ maintain_thing[k] = "calling"
    /\ maintain_thing' = [maintain_thing EXCEPT ![k] = "sleep_error"]
    /\ attempts' = [attempts EXCEPT ![k].ended = "raised"]
    /\ UNCHANGED <<orderflow, updates, trail, last_update_timestamps, mainvars, sched, markets, composed, start_orders,
                   faults, pnls, pc, noisiness, eligible_symbols, bot, events, fin, config,
                   forced_modes, active_symbols, live_configs, positions, balance, tickers,
                   emas, grid, open_orders, fetched_positions, fetched_open_orders,
                   ex_orders, ex_positions, next_id, to_cancel, to_create, executions, tick>>

\* time passes once every task awaits: the sleepers wake up, the calls and
\* the tick stay pending
Pass ==
    /\ pc \in {"sleep", "sleep_error", "execute"}
    /\ \A k \in MaintainerNames : maintain_thing[k] # "poll"
    /\ (now + 1) % (Hour \div 2) # MaxMaintain
    /\ now' = now + 1
    /\ pc' = IF pc = "execute" THEN "execute" ELSE "poll"
    /\ maintain_thing' = [k \in MaintainerNames |->
                            IF maintain_thing[k] = "calling" THEN "calling" ELSE "poll"]
    /\ history' = [history EXCEPT
                     !.since_done = IF @ < execution_delay_millis THEN @ + 1 ELSE @]
    /\ UNCHANGED <<orderflow, updates, trail, last_update_timestamps, attempts, mainvars, prev_minute, recent_fill,
                   markets, composed, start_orders, faults, pnls, noisiness,
                   eligible_symbols, bot, events, fin, config, forced_modes, active_symbols,
                   live_configs, positions, balance, tickers, emas, grid, open_orders,
                   fetched_positions, fetched_open_orders, ex_orders, ex_positions, next_id,
                   to_cancel, to_create, executions, tick>>

\* the bot as start_data_maintainers leaves it, and as it is six minutes
\* before the first update of the EMAs and before the second update of the
\* market info when no call has failed and every call returned at once
MaintainStarts ==
    {[now |-> 0, at |-> "poll",
      stamps |-> [k \in MaintainerNames |-> 0]],
     [now |-> 351, at |-> "sleep",
      stamps |-> [k \in MaintainerNames |-> IF k = "maintain_hlcs_15m" THEN 351 ELSE 0]],
     [now |-> 715, at |-> "sleep",
      stamps |-> [k \in MaintainerNames |->
                    IF k = "maintain_hlcs_15m" THEN 715
                    ELSE IF k = "maintain_EMAs" THEN 361 ELSE 0]]}

InitMaintain ==
    /\ fin = {}
    /\ config = [max_n_cancellations_per_batch |-> 2, max_n_creations_per_batch |-> 2,
                 auto_gs |-> TRUE, price_distance_threshold |-> 200]
    /\ forced_modes = ForcedModes("normal")
    /\ active_symbols = <<>>
    /\ live_configs = [s \in Symbols |-> [pside \in PSideSet |-> LiveConfig]]
    /\ balance = 100
    /\ tickers = [s \in Symbols |->
                    IF s = "A" THEN [bid |-> 3, ask |-> 4, last |-> 3]
                    ELSE [bid |-> 4, ask |-> 5, last |-> 4]]
    /\ emas = [pside \in PSideSet |-> [s \in Symbols |-> [min |-> 3, max |-> 4]]]
    /\ ex_positions = ExchangePositions(0)
    /\ grid = Grids(NoGrid, NoGrid)
    /\ positions = PositionsFrom(FetchPositions)
    /\ fetched_positions = FetchPositions
    /\ ex_orders = <<>>
    /\ next_id = 1
    /\ open_orders = GroupBySymbol(<<>>)
    /\ fetched_open_orders = <<>>
    /\ start_orders = <<>>
    /\ to_cancel = <<>>
    /\ to_create = <<>>
    /\ executions = <<>>
    /\ composed = [s \in Symbols |-> <<>>]
    /\ faults = 0
    /\ pnls = [realized |-> 0, peak_balance |-> 100]
    /\ noisiness = SymbolOrder
    /\ eligible_symbols = Symbols
    /\ bot = [forager_mode |-> FALSE,
              n_positions |-> [pside \in PSideSet |-> 1],
              enabled |-> [pside \in PSideSet |-> TRUE]]
    /\ events = 0
    /\ OrdersIdle
    /\ UpdIdle
    /\ NoTrailing
    /\ MarketsKnown
    /\ MainIdle
    /\ \E st \in MaintainStarts :
          /\ now = st.now
          /\ pc = st.at
          /\ last_update_timestamps = st.stamps
          /\ maintain_thing = [k \in MaintainerNames |-> st.at]
          /\ attempts = [k \in MaintainerNames |->
                           [began |-> st.stamps[k], ended |-> "returned", after |-> "none"]]
    /\ prev_minute = now_minute
    /\ recent_fill = FALSE
    /\ history = [began_with_fill |-> FALSE, since_done |-> execution_delay_millis,
                  errors |-> 0, restarted |-> <<>>,
                  started |-> -1, running |-> 0]
    /\ tick = NewTick(0)

NextMaintain ==
    \/ Pass
    \/ Poll
    \/ ExecuteReturns
    \/ \E k \in MaintainerNames : MaintainPoll(k)
    \/ \E k \in MaintainerNames : UpdateReturns(k)
    \/ \E k \in MaintainerNames : UpdateRaises(k)

SpecMaintain == InitMaintain /\ [][NextMaintain]_vars

\* C28: a maintainer whose update call raised is still in its loop and
\* begins the next call of that update more than its update interval after
\* the failed call began; and no step of a maintainer changes the loop of
\* run_execution_loop, which begins a tick at its first poll in a new minute
\* before any time passes
C28_RetryAtInterval ==
    /\ [][\A k \in MaintainerNames :
            /\ maintain_thing[k] = "sleep_error" =>
                 maintain_thing'[k] \in {"sleep_error", "poll"}
            /\ (maintain_thing'[k] = "calling" /\ maintain_thing[k] # "calling"
                  /\ attempts[k].ended = "raised") =>
                 now - attempts[k].began > update_intervals[k]]_vars
    /\ [][(pc = "poll" /\ now_minute # prev_minute) =>
            \/ pc' = "execute"
            \/ pc' = pc /\ now' = now /\ prev_minute' = prev_minute]_vars
    /\ [](\A k \in MaintainerNames : maintainers[k] = "running")

\* an update is called again after its last call raised, and a tick is in
\* progress while that call is pending
C28_Witness ==
    \E k \in MaintainerNames :
        /\ attempts[k].after = "raised"
        /\ attempts[k].ended = "pending"
        /\ pc = "execute"


----------------------------------------------------------------------------
(* A failure inside calc_ideal_orders and the other symbols of the tick *)

\* the symbols other than the one whose unstuck close raised that have ideal
\* orders and nothing resting on the exchange
OwedSymbols ==
    {s \in Symbols :
        /\ s # calc_unstucking_close(ComposedOrders).symbol
        /\ FilteredOrders(ComposedOrders)[s] # <<>>
        /\ open_orders[s] = <<>>}

\* C27 as stated: when composing the orders of one symbol fails, the tick
\* still composes and dispatches the orders of the other active symbols
C27_AsStated ==
    (tick.done /\ tick.raised) =>
        \A s \in OwedSymbols :
            /\ composed[s] # <<>>
            /\ \E x \in Range(tick.sent_create) : x.symbol = s


----------------------------------------------------------------------------
(* Trailing extremes: update_pnls, update_positions, update_hlcs_1m and    *)
(* update_trailing_data over the fills and the 1m candles of symbol A.     *)
(* Time is in units of 5 seconds as above and passes a minute at a time;   *)
(* the lookback of the fills is a minute or thirty days.                   *)

MaxCandles == 4
MaxFills == 3

Week == 7 * Day

\* the high, low and close a candle may have
CandleShapes == {[high |-> 5, low |-> 4, close |-> 4], [high |-> 3, low |-> 2, close |-> 3]}

is_trailing(symbol, pside) == trail_config.trailing

\* the fills of the side in self.pnls, by position
FillsOf(symbol, pside) ==
    {i \in 1..Len(fills) : fills[i].symbol = symbol /\ fills[i].position_side = pside}

\* variant: the time the side was opened, as the exchange has it
get_last_position_changes_opened(symbol, pside) == opened[pside].seen

\* get_last_position_changes: the timestamp of the last fill of the side in
\* self.pnls, seven days ago without one
get_last_position_changes(symbol, pside) ==
    IF FillsOf(symbol, pside) = {} THEN now - Week
    ELSE fills[CHOOSE i \in FillsOf(symbol, pside) :
                 \A j \in FillsOf(symbol, pside) : j <= i].timestamp

\* the sides get_last_position_changes has an entry for
Changed(symbol, pside) == has_position(symbol, pside) /\ is_trailing(symbol, pside)

\* update_trailing_data: one candle folded into the extremes of a side
FoldCandle(tp, x) ==
    LET a == IF x.high > tp.max_since_open
             THEN [tp EXCEPT !.max_since_open = x.high, !.min_since_max = x.close]
             ELSE [tp EXCEPT !.min_since_max = Min(@, x.low)]
    IN IF x.low < a.min_since_open
       THEN [a EXCEPT !.min_since_open = x.low, !.max_since_min = x.close]
       ELSE [a EXCEPT !.max_since_min = Max(@, x.high)]

RECURSIVE TrailWalk(_, _, _)
\* for x in self.hlcs_1m[symbol]: if x[0] <= last_position_changes[symbol][pside]: continue
TrailWalk(candles, since, tp) ==
    IF candles = <<>> THEN tp
    ELSE IF Head(candles).ts <= since THEN TrailWalk(Tail(candles), since, tp)
    ELSE TrailWalk(Tail(candles), since, FoldCandle(tp, Head(candles)))

\* self.trailing_prices after update_trailing_data
NewTrailingPrices ==
    [s \in Symbols |-> [pside \in PSideSet |->
        IF Changed(s, pside)
        THEN TrailWalk(hlcs_1m[s], get_last_position_changes(s, pside), Sentinels)
        ELSE Sentinels]]

\* fetch_hlcs_1m: the candles the exchange has of the symbol
FetchHlcs1m(symbol) == IF symbol = "A" THEN ex_candles ELSE <<>>

\* update_hlcs_1m: since is an hour before the earlier change of the symbol,
\* and the candles from three hours before since are kept
NewHlcs1m ==
    [s \in Symbols |->
        IF \E pside \in PSideSet : Changed(s, pside)
        THEN LET sides == {pside \in PSideSet : Changed(s, pside)}
                 first == CHOOSE p \in sides :
                            \A q \in sides : get_last_position_changes(s, p)
                                               <= get_last_position_changes(s, q)
                 since == get_last_position_changes(s, first) - Hour
             IN SelectSeq(FetchHlcs1m(s), LAMBDA x : x.ts >= since - 3 * Hour)
        ELSE hlcs_1m[s]]

\* the exchange fills an entry of a flat side of A
FillOpens(pside) ==
    /\ ex_positions["A"][pside].size = 0
    /\ Len(ex_fills) < MaxFills
    /\ ex_positions' = [ex_positions EXCEPT !["A"][pside] = [size |-> 2, price |-> 3]]
    /\ ex_fills' = Append(ex_fills, [id |-> Len(ex_fills) + 1, symbol |-> "A",
                                     position_side |-> pside, timestamp |-> now])
    /\ opened' = [opened EXCEPT ![pside].at = now]
    /\ UNCHANGED <<orderflow, updates, ex_candles, hlcs_1m, fills, trailing_prices, trail_config, maint,
                   mainvars, sched, markets, composed, start_orders, faults, pnls, pc,
                   noisiness, eligible_symbols, bot, events, fin, config, forced_modes,
                   active_symbols, live_configs, positions, balance, tickers, emas, grid,
                   open_orders, fetched_positions, fetched_open_orders, ex_orders, next_id,
                   to_cancel, to_create, executions, tick>>

\* the exchange fills a close of the whole of a side of A
FillCloses(pside) ==
    /\ ex_positions["A"][pside].size # 0
    /\ Len(ex_fills) < MaxFills
    /\ ex_positions' = [ex_positions EXCEPT !["A"][pside] = Flat]
    /\ ex_fills' = Append(ex_fills, [id |-> Len(ex_fills) + 1, symbol |-> "A",
                                     position_side |-> pside, timestamp |-> now])
    /\ UNCHANGED <<orderflow, updates, opened, ex_candles, hlcs_1m, fills, trailing_prices, trail_config, maint,
                   mainvars, sched, markets, composed, start_orders, faults, pnls, pc,
                   noisiness, eligible_symbols, bot, events, fin, config, forced_modes,
                   active_symbols, live_configs, positions, balance, tickers, emas, grid,
                   open_orders, fetched_positions, fetched_open_orders, ex_orders, next_id,
                   to_cancel, to_create, executions, tick>>

\* prepare_for_execution: update_positions, one of the calls of the first gather
UpdatePositions ==
    /\ pc = "prepare"
    /\ "positions" \notin fin
    /\ fin' = fin \cup {"positions"}
    /\ fetched_positions' = FetchPositions
    /\ positions' = PositionsFrom(FetchPositions)
    /\ opened' = [pside \in PSideSet |-> [opened[pside] EXCEPT !.seen = opened[pside].at]]
    /\ UNCHANGED <<orderflow, updates, ex_candles, ex_fills, hlcs_1m, fills, trailing_prices, trail_config,
                   maint, mainvars, sched, markets, composed, start_orders, faults, pnls, pc,
                   noisiness, eligible_symbols, bot, events, config, forced_modes,
                   active_symbols, live_configs, balance, tickers, emas, grid, open_orders,
                   fetched_open_orders, ex_orders, ex_positions, next_id, to_cancel,
                   to_create, executions, tick>>

\* age_limit = utc_ms() - 1000 * 60 * 60 * 24 * pnls_max_lookback_days, the
\* lookback in units of the clock
age_limit == now - trail_config.pnls_max_lookback_days

\* variant: every fetched fill is taken as new
NewPnls_all(ledger, res) == res

\* new_pnls = [x for x in res if x["id"] not in {elm["id"] for elm in self.pnls}]
NewPnls(ledger, res) ==
    SelectSeq(res, LAMBDA x : x.id \notin {ledger[i].id : i \in DOMAIN ledger})

\* {elm["id"]: elm for elm in seq}.values(): one fill for each id, at the
\* place of the first fill of the id and with the content of the last
DedupeById(seq) ==
    LET first == SelectSeq([i \in 1..Len(seq) |-> i],
                           LAMBDA i : \A j \in 1..(i - 1) : seq[j].id # seq[i].id)
        Last(id) == seq[CHOOSE i \in 1..Len(seq) :
                          /\ seq[i].id = id
                          /\ \A j \in (i + 1)..Len(seq) : seq[j].id # id]
    IN [k \in 1..Len(first) |-> Last(seq[first[k]].id)]

\* sorted(..., key=lambda x: x["timestamp"])
SortByTimestamp(seq) == StableSort(seq, LAMBDA x, y : x.timestamp < y.timestamp)

\* update_pnls, lines 1224-1228: the fills of self.pnls + new_pnls newer than
\* the age limit, one for each id, by timestamp
MergePnls(ledger, res, limit) ==
    SortByTimestamp(DedupeById(SelectSeq(ledger \o NewPnls(ledger, res),
                                         LAMBDA x : x.timestamp > limit)))

\* prepare_for_execution: update_pnls, another call of the first gather, when
\* fetch_pnls returns the fill history of the exchange
UpdatePnls ==
    /\ pc = "prepare"
    /\ "pnls" \notin fin
    /\ fin' = fin \cup {"pnls"}
    /\ fills' = MergePnls(fills, ex_fills, age_limit)
    /\ pnls_cache' = IF NewPnls(fills, ex_fills) # <<>>
                     THEN MergePnls(fills, ex_fills, age_limit) ELSE pnls_cache
    /\ upd_timestamps' = [upd_timestamps EXCEPT !["pnls"] = now]
    /\ UNCHANGED <<orderflow, pnls_call, opened, ex_candles, ex_fills, hlcs_1m, trailing_prices,
                   trail_config, maint, mainvars, sched, markets, composed, start_orders,
                   faults, pnls, pc, noisiness, eligible_symbols, bot, events, config,
                   forced_modes, active_symbols, live_configs, positions, balance, tickers,
                   emas, grid, open_orders, fetched_positions, fetched_open_orders, ex_orders,
                   ex_positions, next_id, to_cancel, to_create, executions, tick>>

\* prepare_for_execution: update_hlcs_1m, once the first gather is done
UpdateHlcs1m ==
    /\ pc = "prepare"
    /\ fin = {"positions", "pnls"}
    /\ hlcs_1m' = NewHlcs1m
    /\ fin' = {}
    /\ pc' = "modes"
    /\ UNCHANGED <<orderflow, updates, opened, ex_candles, ex_fills, fills, trailing_prices, trail_config,
                   maint, mainvars, sched, markets, composed, start_orders, faults, pnls,
                   noisiness, eligible_symbols, bot, events, config, forced_modes,
                   active_symbols, live_configs, positions, balance, tickers, emas, grid,
                   open_orders, fetched_positions, fetched_open_orders, ex_orders,
                   ex_positions, next_id, to_cancel, to_create, executions, tick>>

\* update_PB_modes: its last call, update_trailing_data
UpdateTrailingData ==
    /\ pc = "modes"
    /\ trailing_prices' = NewTrailingPrices
    /\ pc' = "trailed"
    /\ UNCHANGED <<orderflow, updates, opened, ex_candles, ex_fills, hlcs_1m, fills, trail_config, maint,
                   mainvars, sched, markets, composed, start_orders, faults, pnls,
                   noisiness, eligible_symbols, bot, events, fin, config, forced_modes,
                   active_symbols, live_configs, positions, balance, tickers, emas, grid,
                   open_orders, fetched_positions, fetched_open_orders, ex_orders,
                   ex_positions, next_id, to_cancel, to_create, executions, tick>>

\* the next minute begins with a new candle, and the next tick with it
NextMinute(shape) ==
    /\ pc = "trailed"
    /\ Len(ex_candles) < MaxCandles
    /\ now' = now + Minute
    /\ ex_candles' = Append(ex_candles, [ts |-> now + Minute, high |-> shape.high,
                                         low |-> shape.low, close |-> shape.close])
    /\ pc' = "prepare"
    /\ UNCHANGED <<orderflow, updates, opened, ex_fills, hlcs_1m, fills, trailing_prices, trail_config, maint,
                   mainvars, prev_minute, recent_fill, history, markets, composed,
                   start_orders, faults, pnls, noisiness, eligible_symbols, bot, events,
                   fin, config, forced_modes, active_symbols, live_configs, positions,
                   balance, tickers, emas, grid, open_orders, fetched_positions,
                   fetched_open_orders, ex_orders, ex_positions, next_id, to_cancel,
                   to_create, executions, tick>>

InitTrailing ==
    /\ pc = "prepare"
    /\ fin = {}
    /\ config = [max_n_cancellations_per_batch |-> 2, max_n_creations_per_batch |-> 2,
                 auto_gs |-> TRUE, price_distance_threshold |-> 200]
    /\ forced_modes = ForcedModes("normal")
    /\ active_symbols = <<>>
    /\ live_configs = [s \in Symbols |-> [pside \in PSideSet |-> LiveConfig]]
    /\ balance = 100
    /\ tickers = [s \in Symbols |->
                    IF s = "A" THEN [bid |-> 3, ask |-> 4, last |-> 3]
                    ELSE [bid |-> 4, ask |-> 5, last |-> 4]]
    /\ emas = [pside \in PSideSet |-> [s \in Symbols |-> [min |-> 3, max |-> 4]]]
    /\ ex_positions = ExchangePositions(0)
    /\ grid = Grids(NoGrid, NoGrid)
    /\ positions = PositionsFrom(FetchPositions)
    /\ fetched_positions = FetchPositions
    /\ ex_orders = <<>>
    /\ next_id = 1
    /\ open_orders = GroupBySymbol(<<>>)
    /\ fetched_open_orders = <<>>
    /\ start_orders = <<>>
    /\ to_cancel = <<>>
    /\ to_create = <<>>
    /\ executions = <<>>
    /\ composed = [s \in Symbols |-> <<>>]
    /\ faults = 0
    /\ pnls = [realized |-> 0, peak_balance |-> 100]
    /\ noisiness = SymbolOrder
    /\ eligible_symbols = Symbols
    /\ bot = [forager_mode |-> FALSE,
              n_positions |-> [pside \in PSideSet |-> 1],
              enabled |-> [pside \in PSideSet |-> TRUE]]
    /\ events = 0
    /\ OrdersIdle
    /\ UpdIdle
    /\ MaintainIdle
    /\ MainIdle
    /\ NoSchedule
    /\ MarketsKnown
    /\ \E shape \in CandleShapes :
          ex_candles = <<[ts |-> 0, high |-> shape.high, low |-> shape.low,
                          close |-> shape.close]>>
    /\ ex_fills = <<>>
    /\ opened = [pside \in PSideSet |-> [at |-> 0, seen |-> 0]]
    /\ hlcs_1m = [s \in Symbols |-> <<>>]
    /\ fills = <<>>
    /\ trailing_prices = [s \in Symbols |-> [pside \in PSideSet |-> Sentinels]]
    /\ trail_config \in [pnls_max_lookback_days : {Minute, 30 * Day}, trailing : BOOLEAN]
    /\ tick = NewTick(0)

NextTrailing ==
    \/ \E pside \in PSideSet : FillOpens(pside)
    \/ \E pside \in PSideSet : FillCloses(pside)
    \/ UpdatePositions
    \/ UpdatePnls
    \/ UpdateHlcs1m
    \/ UpdateTrailingData
    \/ \E shape \in CandleShapes : NextMinute(shape)

SpecTrailing == InitTrailing /\ [][NextTrailing]_vars

\* the candles update_trailing_data folds into the extremes of the side
Contributing(symbol, pside) ==
    {x \in Range(hlcs_1m[symbol]) :
        Changed(symbol, pside) /\ x.ts > get_last_position_changes(symbol, pside)}

\* C30 as stated: after update_trailing_data the extremes of every flat side
\* are the sentinels, and no candle whose minute ended before the side was
\* opened contributes to the extremes of the position
C30_AsStated ==
    pc = "trailed" =>
        \A s \in Symbols, pside \in PSideSet :
            /\ ~has_position(s, pside) => trailing_prices[s][pside] = Sentinels
            /\ (s = "A" /\ has_position(s, pside)) =>
                 \A x \in Contributing(s, pside) : x.ts + Minute > opened[pside].seen


----------------------------------------------------------------------------
(* The filters of calc_ideal_orders on their own: the grids of A hold      *)
(* orders near to and far from the last price, and orders of the two       *)
(* position sides at the same price.                                        *)

FilterGridsLongFlat ==
    {[entries |-> <<T(1, 2, "entry_initial_normal_long")>>, closes |-> <<>>],
     [entries |-> <<T(1, 1, "entry_initial_normal_long")>>, closes |-> <<>>]}

FilterGridsLongPos ==
    {[entries |-> <<T(1, 1, "entry_grid_normal_long")>>,
      closes |-> <<T(-1, 4, "close_grid_long"), T(-1, 7, "close_grid_long")>>],
     [entries |-> <<T(1, 2, "entry_grid_normal_long"), T(1, 1, "entry_grid_normal_long")>>,
      closes |-> <<T(-2, 5, "close_grid_long")>>]}

FilterGridsShortFlat ==
    {NoGrid,
     [entries |-> <<T(-1, 4, "entry_initial_normal_short")>>, closes |-> <<>>],
     [entries |-> <<T(-1, 5, "entry_initial_normal_short")>>, closes |-> <<>>]}

FilterGridsShortPos ==
    {[entries |-> <<T(-1, 7, "entry_grid_normal_short")>>,
      closes |-> <<T(1, 2, "close_grid_short"), T(1, 1, "close_grid_short")>>],
     [entries |-> <<T(-1, 4, "entry_grid_normal_short")>>,
      closes |-> <<T(2, 1, "close_grid_short")>>]}

InitFilter ==
    /\ pc = "compose"
    /\ fin = {}
    /\ \E threshold \in {50, 200} :
         config = [max_n_cancellations_per_batch |-> 2, max_n_creations_per_batch |-> 2,
                   auto_gs |-> TRUE, price_distance_threshold |-> threshold]
    /\ forced_modes = ForcedModes("normal")
    /\ balance \in {6, 100}
    /\ tickers = [s \in Symbols |->
                    IF s = "A" THEN [bid |-> 3, ask |-> 4, last |-> 3]
                    ELSE [bid |-> 4, ask |-> 5, last |-> 4]]
    /\ emas = [pside \in PSideSet |-> [s \in Symbols |-> [min |-> 3, max |-> 4]]]
    /\ \E ls \in {0, 2}, ss \in {0, 2} :
         /\ ex_positions = ExchangePositionsBoth(ls, ss)
         /\ \E gl \in (IF ls = 0 THEN FilterGridsLongFlat ELSE FilterGridsLongPos),
               gs \in (IF ss = 0 THEN FilterGridsShortFlat ELSE FilterGridsShortPos) :
              grid = Grids(gl, gs)
    /\ positions = PositionsFrom(FetchPositions)
    /\ fetched_positions = FetchPositions
    /\ \E oo \in InitialOrdersBoth :
         /\ ex_orders = oo
         /\ next_id = Len(oo) + 1
         /\ open_orders = GroupBySymbol(oo)
         /\ fetched_open_orders = oo
         /\ start_orders = oo
    /\ to_cancel = <<>>
    /\ to_create = <<>>
    /\ executions = <<>>
    /\ composed = [s \in Symbols |-> <<>>]
    /\ faults = 0
    /\ NoForager
    /\ active_symbols = NewActiveSymbols
    /\ live_configs = [s \in Symbols |-> [pside \in PSideSet |->
                         [LiveConfig EXCEPT !.mode = NewMode(s, pside)]]]
    /\ tick = [NewTick(1) EXCEPT !.refreshed = Gather1 \cup Gather2 \cup {"update_PB_modes"}]

SpecFilter == InitFilter /\ [][NextPure]_vars

\* the relative distance of the price to the last price of the symbol is
\* above price_distance_threshold
Far(symbol, price) ==
    DiffAbovePct(calc_diff(price, tickers[symbol].last), config.price_distance_threshold)

\* the tuples handed to the filters of calc_ideal_orders
Tuples(symbol) == Range(WithUnstuck(ComposedOrders)[symbol])

Reaching(symbol) == {x \in Tuples(symbol) : ~DroppedByDistance(symbol, x)}

\* C40 as stated: two ideal orders of a symbol that differ in side or in
\* position side are both kept even when their quantity and price are equal
C40_AsStated ==
    Diffed =>
        \A s \in Symbols : \A x \in Reaching(s) :
            \E o \in Range(PassivbotIdealOrders[s]) :
                /\ o.qty = Abs(x.qty)
                /\ o.price = x.price
                /\ o.side = determine_side_from_order_tuple(x)
                /\ o.position_side = (IF TagHasLong(x.tag) THEN "long" ELSE "short")


----------------------------------------------------------------------------
(* BitgetBot.calc_ideal_orders on its own: A and B hold long positions     *)
(* whose grids together have about a hundred orders.                       *)

\* the numbers of grid entries of a symbol
CapGridSizes == 47..53

\* n grid entries below the last price, one price step apart, and two closes
CapGrid(n) ==
    [entries |-> [k \in 1..n |-> T(1, 100 - k, "entry_grid_normal_long")],
     closes |-> <<T(-1, 101, "close_grid_long"), T(-1, 102, "close_grid_long")>>]

InitCap ==
    /\ pc = "compose"
    /\ fin = {}
    /\ config = [max_n_cancellations_per_batch |-> 2, max_n_creations_per_batch |-> 2,
                 auto_gs |-> TRUE, price_distance_threshold |-> 200]
    /\ forced_modes = ForcedModes("normal")
    /\ balance = 10000
    /\ \E last \in {100, 101} :
         tickers = [s \in Symbols |->
                      IF s = "A" THEN [bid |-> 100, ask |-> 101, last |-> 100]
                      ELSE [bid |-> last, ask |-> last + 1, last |-> last]]
    /\ emas = [pside \in PSideSet |-> [s \in Symbols |-> [min |-> 99, max |-> 101]]]
    /\ ex_positions = Held(<<2, 100>>, <<0, 0>>, <<2, 100>>)
    /\ \E na \in CapGridSizes, nb \in CapGridSizes :
         grid = [s \in Symbols |-> [pside \in PSideSet |->
                    IF pside = "short" THEN NoGrid
                    ELSE IF s = "A" THEN CapGrid(na) ELSE CapGrid(nb)]]
    /\ positions = PositionsFrom(FetchPositions)
    /\ fetched_positions = FetchPositions
    /\ ex_orders = <<>>
    /\ next_id = 1
    /\ open_orders = GroupBySymbol(<<>>)
    /\ fetched_open_orders = <<>>
    /\ start_orders = <<>>
    /\ to_cancel = <<>>
    /\ to_create = <<>>
    /\ executions = <<>>
    /\ composed = [s \in Symbols |-> <<>>]
    /\ faults = 0
    /\ NoForager
    /\ active_symbols = NewActiveSymbols
    /\ live_configs = [s \in Symbols |-> [pside \in PSideSet |->
                         [LiveConfig EXCEPT !.mode = NewMode(s, pside)]]]
    /\ tick = [NewTick(1) EXCEPT !.refreshed = Gather1 \cup Gather2 \cup {"update_PB_modes"}]

NextCap == Compose

SpecCap == InitCap /\ [][NextCap]_vars

\* the orders of the active symbols in the set, one after the other
AllOf(orders) == ConcatOver(active_symbols, orders)

\* C33: the set BitgetBot.calc_ideal_orders returns holds the orders of
\* Passivbot.calc_ideal_orders when these are at most 100, and otherwise 100
\* of them, none of which is farther from its symbol's last price than an
\* order that was dropped
C33_Cap ==
    Diffed =>
        \A all \in {AllOf(PassivbotIdealOrders)} : \A kept \in {AllOf(composed)} :
            /\ Len(kept) = Min(Len(all), 100)
            /\ Range(kept) \subseteq Range(all)
            /\ Cardinality(Range(kept)) = Len(kept)
            /\ \A k \in Range(kept), d \in Range(all) \ Range(kept) :
                 ~DiffLess(OrderDist(d), OrderDist(k))

\* more than 100 orders were computed and 100 of them returned
C33_Witness ==
    /\ Diffed
    /\ \A all \in {AllOf(PassivbotIdealOrders)} :
          /\ Len(all) > 100
          /\ Len(AllOf(composed)) = 100
          /\ Range(all) \ Range(AllOf(composed)) # {}

-----------------------------------------------------------------------------
(* The PnL ledger: update_pnls with its cache file and its fetches *)

\* the lookback of the ledger states, in units of the clock
LedgerLookback == 5 * Hour

\* the ids of the fills the exchange reports
LedgerIds == 1..2

\* the steps the clock takes between the steps of update_pnls
LedgerSteps == {3 * Hour}

\* the clock of the ledger states stops after this many units
MaxLedgerSpan == 6 * Hour

\* what a fetch_pnls may return: up to two fills with distinct ids by
\* timestamp, at the present and at the age limit of the call
FetchedPnls ==
    LET stamps == {now, pnls_call.age_limit}
        shapes == [id : LedgerIds, symbol : {"A"}, position_side : {"long"},
                   timestamp : stamps]
    IN {<<>>} \cup {<<x>> : x \in shapes}
       \cup {<<x, y>> : <<x, y>> \in {p \in shapes \X shapes :
                                        p[1].id # p[2].id /\ p[1].timestamp <= p[2].timestamp}}

\* the call returns; offered tells whether the fetch held, with another
\* timestamp, the id of a fill of the ledger newer than the age limit
PnlsReturn(result, res) ==
    [at |-> "idle", age_limit |-> pnls_call.age_limit, pnls_cache |-> <<>>,
     returned |-> result,
     offered |-> \E x \in Range(fills), y \in Range(res) :
                    x.timestamp > pnls_call.age_limit /\ y.id = x.id /\ y # x]

PnlsAwait(at, cached) ==
    [at |-> at, age_limit |-> age_limit, pnls_cache |-> cached, returned |-> "none",
     offered |-> FALSE]

\* update_pnls up to its first await: with the last update more than five
\* minutes ago an empty self.pnls is loaded from the cache file (an unreadable
\* file gives no fills), and the fills older than the cache are fetched when
\* its first fill is more than four hours newer than the age limit
UpdatePnlsStarts ==
    /\ pnls_call.at = "idle"
    /\ IF now - upd_timestamps["pnls"] > 5 * Minute
       THEN IF Len(fills) = 0
            THEN \E cached \in {pnls_cache, <<>>} :
                    IF Len(cached) > 0 /\ cached[1].timestamp > age_limit + 4 * Hour
                    THEN /\ pnls_call' = PnlsAwait("missing", cached)
                         /\ UNCHANGED fills
                    ELSE /\ pnls_call' = PnlsAwait("since", cached)
                         /\ fills' = cached
            ELSE /\ pnls_call' = PnlsAwait("since", <<>>)
                 /\ UNCHANGED fills
       ELSE /\ pnls_call' = PnlsAwait("latest", <<>>)
            /\ UNCHANGED fills
    /\ UNCHANGED <<orderflow, pc, fin, config, forced_modes, active_symbols, live_configs, positions,
                   composed, start_orders, faults, balance, tickers, emas, grid,
                   open_orders, fetched_positions, fetched_open_orders, ex_orders,
                   ex_positions, next_id, to_cancel, to_create, executions, tick, pnls,
                   noisiness, eligible_symbols, bot, events, markets_dict, ex_markets,
                   ignored_symbols, now, prev_minute, recent_fill, history, restarts,
                   maintainers, connections, last_update_timestamps, maintain_thing,
                   attempts, ex_candles, ex_fills, opened, hlcs_1m, trailing_prices,
                   trail_config, upd_timestamps, pnls_cache>>

\* the fetch of the fills missing from the cache returns them
MissingPnlsReturn ==
    /\ pnls_call.at = "missing"
    /\ \E res \in FetchedPnls :
       \E merged \in {SortByTimestamp(DedupeById(
                         SelectSeq(pnls_call.pnls_cache \o res,
                                   LAMBDA x : x.timestamp >= pnls_call.age_limit)))} :
         /\ fills' = merged
         /\ pnls_call' = [pnls_call EXCEPT !.at = "since", !.pnls_cache = merged]
    /\ UNCHANGED <<orderflow, pc, fin, config, forced_modes, active_symbols, live_configs, positions,
                   composed, start_orders, faults, balance, tickers, emas, grid,
                   open_orders, fetched_positions, fetched_open_orders, ex_orders,
                   ex_positions, next_id, to_cancel, to_create, executions, tick, pnls,
                   noisiness, eligible_symbols, bot, events, markets_dict, ex_markets,
                   ignored_symbols, now, prev_minute, recent_fill, history, restarts,
                   maintainers, connections, last_update_timestamps, maintain_thing,
                   attempts, ex_candles, ex_fills, opened, hlcs_1m, trailing_prices,
                   trail_config, upd_timestamps, pnls_cache>>

\* fetch_pnls returns the fills: the ledger is merged and, with new fills,
\* dumped to the cache file, which may fail
PnlsReturn_True ==
    /\ pnls_call.at \in {"since", "latest"}
    /\ \E res \in FetchedPnls, dumped \in BOOLEAN :
         /\ \E merged \in {MergePnls(fills, res, pnls_call.age_limit)} :
              /\ fills' = merged
              /\ pnls_cache' = IF NewPnls(fills, res) # <<>> /\ dumped
                               THEN merged ELSE pnls_cache
         /\ pnls_call' = PnlsReturn("True", res)
    /\ upd_timestamps' = [upd_timestamps EXCEPT !["pnls"] = now]
    /\ UNCHANGED <<orderflow, pc, fin, config, forced_modes, active_symbols, live_configs, positions,
                   composed, start_orders, faults, balance, tickers, emas, grid,
                   open_orders, fetched_positions, fetched_open_orders, ex_orders,
                   ex_positions, next_id, to_cancel, to_create, executions, tick, pnls,
                   noisiness, eligible_symbols, bot, events, markets_dict, ex_markets,
                   ignored_symbols, now, prev_minute, recent_fill, history, restarts,
                   maintainers, connections, last_update_timestamps, maintain_thing,
                   attempts, ex_candles, ex_fills, opened, hlcs_1m, trailing_prices,
                   trail_config>>

\* a fetch gives None or False, or raises: update_pnls returns False where it
\* tests the result and raises otherwise
PnlsFetchFails(raises) ==
    /\ pnls_call.at # "idle"
    /\ pnls_call' = PnlsReturn(IF raises \/ pnls_call.at = "latest" THEN "raised" ELSE "False",
                               <<>>)
    /\ UNCHANGED <<orderflow, pc, fin, config, forced_modes, active_symbols, live_configs, positions,
                   composed, start_orders, faults, balance, tickers, emas, grid,
                   open_orders, fetched_positions, fetched_open_orders, ex_orders,
                   ex_positions, next_id, to_cancel, to_create, executions, tick, pnls,
                   noisiness, eligible_symbols, bot, events, markets_dict, ex_markets,
                   ignored_symbols, now, prev_minute, recent_fill, history, restarts,
                   maintainers, connections, last_update_timestamps, maintain_thing,
                   attempts, ex_candles, ex_fills, opened, hlcs_1m, fills, trailing_prices,
                   trail_config, upd_timestamps, pnls_cache>>

\* the bot is restarted: a new Passivbot has no fills and update timestamps 0.0
LedgerRestart ==
    /\ pnls_call.at = "idle"
    /\ pnls_call.returned # "none"
    /\ fills' = <<>>
    /\ upd_timestamps' = [k \in UpdateNames |-> 0]
    /\ pnls_call' = PnlsReturn("none", <<>>)
    /\ UNCHANGED <<orderflow, pc, fin, config, forced_modes, active_symbols, live_configs, positions,
                   composed, start_orders, faults, balance, tickers, emas, grid,
                   open_orders, fetched_positions, fetched_open_orders, ex_orders,
                   ex_positions, next_id, to_cancel, to_create, executions, tick, pnls,
                   noisiness, eligible_symbols, bot, events, markets_dict, ex_markets,
                   ignored_symbols, now, prev_minute, recent_fill, history, restarts,
                   maintainers, connections, last_update_timestamps, maintain_thing,
                   attempts, ex_candles, ex_fills, opened, hlcs_1m, trailing_prices,
                   trail_config, pnls_cache>>

LedgerClock(d) ==
    /\ now + d <= Day + MaxLedgerSpan
    /\ now' = now + d
    /\ UNCHANGED <<orderflow, pc, fin, config, forced_modes, active_symbols, live_configs, positions,
                   composed, start_orders, faults, balance, tickers, emas, grid,
                   open_orders, fetched_positions, fetched_open_orders, ex_orders,
                   ex_positions, next_id, to_cancel, to_create, executions, tick, pnls,
                   noisiness, eligible_symbols, bot, events, markets_dict, ex_markets,
                   ignored_symbols, prev_minute, recent_fill, history, restarts,
                   maintainers, connections, last_update_timestamps, maintain_thing,
                   attempts, ex_candles, ex_fills, opened, hlcs_1m, fills, trailing_prices,
                   trail_config, upd_timestamps, pnls_call, pnls_cache>>

InitLedger ==
    /\ pc = "prepare"
    /\ fin = {}
    /\ config = [max_n_cancellations_per_batch |-> 2, max_n_creations_per_batch |-> 2,
                 auto_gs |-> TRUE, price_distance_threshold |-> 200]
    /\ forced_modes = ForcedModes("normal")
    /\ active_symbols = <<>>
    /\ live_configs = [s \in Symbols |-> [pside \in PSideSet |-> LiveConfig]]
    /\ balance = 100
    /\ tickers = [s \in Symbols |->
                    IF s = "A" THEN [bid |-> 3, ask |-> 4, last |-> 3]
                    ELSE [bid |-> 4, ask |-> 5, last |-> 4]]
    /\ emas = [pside \in PSideSet |-> [s \in Symbols |-> [min |-> 3, max |-> 4]]]
    /\ ex_positions = ExchangePositions(0)
    /\ grid = Grids(NoGrid, NoGrid)
    /\ positions = PositionsFrom(FetchPositions)
    /\ fetched_positions = FetchPositions
    /\ ex_orders = <<>>
    /\ next_id = 1
    /\ open_orders = GroupBySymbol(<<>>)
    /\ fetched_open_orders = <<>>
    /\ start_orders = <<>>
    /\ to_cancel = <<>>
    /\ to_create = <<>>
    /\ executions = <<>>
    /\ composed = [s \in Symbols |-> <<>>]
    /\ faults = 0
    /\ pnls = [realized |-> 0, peak_balance |-> 100]
    /\ noisiness = SymbolOrder
    /\ eligible_symbols = Symbols
    /\ bot = [forager_mode |-> FALSE,
              n_positions |-> [pside \in PSideSet |-> 1],
              enabled |-> [pside \in PSideSet |-> TRUE]]
    /\ events = 0
    /\ OrdersIdle
    /\ tick = NewTick(0)
    /\ UpdIdle
    /\ ex_candles = <<>>
    /\ ex_fills = <<>>
    /\ opened = [pside \in PSideSet |-> [at |-> 0, seen |-> 0]]
    /\ hlcs_1m = [s \in Symbols |-> <<>>]
    /\ fills = <<>>
    /\ trailing_prices = [s \in Symbols |-> [pside \in PSideSet |-> Sentinels]]
    /\ trail_config = [pnls_max_lookback_days |-> LedgerLookback, trailing |-> FALSE]
    /\ MaintainIdle
    /\ MainIdle
    /\ MarketsKnown
    /\ now = Day
    /\ prev_minute = now_minute
    /\ recent_fill = FALSE
    /\ history = [began_with_fill |-> FALSE, since_done |-> 0, errors |-> 0, restarted |-> <<>>,
                  started |-> -1, running |-> 0]

NextLedger ==
    \/ UpdatePnlsStarts
    \/ MissingPnlsReturn
    \/ PnlsReturn_True
    \/ \E raises \in BOOLEAN : PnlsFetchFails(raises)
    \/ LedgerRestart
    \/ \E d \in LedgerSteps : LedgerClock(d)

SpecLedger == InitLedger /\ [][NextLedger]_vars

IdsOf(seq) == {seq[i].id : i \in DOMAIN seq}

\* C32: when update_pnls returns True the ledger holds one fill for each id,
\* every fill in it is newer than the age limit of the call, and every fill
\* the ledger held that is newer than the age limit is in it as it was; the
\* steps of a call before its return remove no fill from the ledger
C32_Ledger ==
    [][/\ (pnls_call.at # "idle" /\ pnls_call'.returned = "True") =>
             /\ \A i, j \in DOMAIN fills' : fills'[i].id = fills'[j].id => i = j
             /\ \A x \in Range(fills') : x.timestamp > pnls_call.age_limit
             /\ \A x \in Range(fills) :
                  x.timestamp > pnls_call.age_limit => x \in Range(fills')
       /\ pnls_call'.at # "idle" => Range(fills) \subseteq Range(fills')]_vars

\* update_pnls has returned True: the ledger has a fill left, it was offered
\* another fill with the id of a fill it kept, and the oldest fill of the
\* cache file has aged out of the ledger
C32_Witness ==
    /\ pnls_call.returned = "True"
    /\ pnls_call.offered
    /\ fills # <<>>
    /\ pnls_cache # <<>>
    /\ pnls_cache[1].timestamp <= pnls_call.age_limit
    /\ pnls_cache[1].id \notin IdsOf(fills)

-----------------------------------------------------------------------------
(* The open orders under the websocket, the POST responses and the REST     *)
(* snapshot of update_open_orders                                           *)

\* update_open_orders is suspended: the first gather runs and it has not returned
OpenOrdersSuspended == pc = "gather1" /\ "update_open_orders" \notin fin

\* an order nobody's POST response reports is placed on the account
PlacedOrders == {X("A", "buy", "long", 1, 1)}

\* the exchange accepts an order whose creation the bot gets no response for
OrderPlaced(order) ==
    /\ events < MaxEvents
    /\ events' = events + 1
    /\ ex_orders' = Append(ex_orders, NewExchangeOrder(order, next_id))
    /\ next_id' = next_id + 1
    /\ UNCHANGED <<pc, fin, config, forced_modes, active_symbols, live_configs, positions,
                   composed, start_orders, faults, balance, tickers, emas, grid,
                   open_orders, fetched_positions, fetched_open_orders, ex_positions,
                   to_cancel, to_create, executions, tick, pnls, noisiness,
                   eligible_symbols, bot, markets_dict, ex_markets, ignored_symbols, now,
                   prev_minute, recent_fill, history, restarts, maintainers, connections,
                   last_update_timestamps, maintain_thing, attempts, ex_candles, ex_fills,
                   opened, hlcs_1m, fills, trailing_prices, trail_config, upd_timestamps,
                   pnls_call, pnls_cache, oo_call, ws_log>>

\* an order expires on the exchange
OrderExpires(i) ==
    /\ events < MaxEvents
    /\ events' = events + 1
    /\ i \in 1..Len(ex_orders)
    /\ ex_orders' = SelectSeqBy(ex_orders, {x \in Range(ex_orders) : x.id # ex_orders[i].id})
    /\ UNCHANGED <<pc, fin, config, forced_modes, active_symbols, live_configs, positions,
                   composed, start_orders, faults, balance, tickers, emas, grid,
                   open_orders, fetched_positions, fetched_open_orders, ex_positions,
                   next_id, to_cancel, to_create, executions, tick, pnls, noisiness,
                   eligible_symbols, bot, markets_dict, ex_markets, ignored_symbols, now,
                   prev_minute, recent_fill, history, restarts, maintainers, connections,
                   last_update_timestamps, maintain_thing, attempts, ex_candles, ex_fills,
                   opened, hlcs_1m, fills, trailing_prices, trail_config, upd_timestamps,
                   pnls_call, pnls_cache, oo_call, ws_log>>

Delivered(status, order) ==
    Append(ws_log, [status |-> status, id |-> order.id,
                    present |-> order.id \in OrderIds(order.symbol)])

\* watch_orders / handle_order_update: status "open" of an order of the exchange
HandleOrderOpen(i) ==
    /\ Suspended
    /\ events < MaxEvents
    /\ events' = events + 1
    /\ i \in 1..Len(ex_orders)
    /\ open_orders' = add_new_order(open_orders, ex_orders[i])
    /\ ws_log' = Delivered("open", ex_orders[i])
    /\ oo_call' = IF OpenOrdersSuspended /\ ex_orders[i].id \notin OrderIds(ex_orders[i].symbol)
                  THEN [oo_call EXCEPT !.added = @ \cup {ex_orders[i].id}]
                  ELSE oo_call
    /\ UNCHANGED <<pc, fin, config, forced_modes, active_symbols, live_configs, positions,
                   composed, start_orders, faults, balance, tickers, emas, grid,
                   fetched_positions, fetched_open_orders, ex_orders, ex_positions,
                   next_id, to_cancel, to_create, executions, tick, pnls, noisiness,
                   eligible_symbols, bot, markets_dict, ex_markets, ignored_symbols, now,
                   prev_minute, recent_fill, history, restarts, maintainers, connections,
                   last_update_timestamps, maintain_thing, attempts, ex_candles, ex_fills,
                   opened, hlcs_1m, fills, trailing_prices, trail_config, upd_timestamps,
                   pnls_call, pnls_cache>>

\* the orders the bot knows of that are no longer on the exchange
GoneOrders ==
    {x \in Range(tick.sent_cancel) \cup UNION {Range(open_orders[s]) : s \in Symbols} :
        ~OnExchange(x.id)}

\* watch_orders / handle_order_update: status "canceled" of an order that left the exchange
HandleOrderCanceled ==
    /\ Suspended
    /\ events < MaxEvents
    /\ events' = events + 1
    /\ \E order \in GoneOrders :
         /\ open_orders' = remove_cancelled_order(open_orders, order)
         /\ ws_log' = Delivered("canceled", order)
         /\ oo_call' = [oo_call EXCEPT !.added = @ \ {order.id}]
    /\ UNCHANGED <<pc, fin, config, forced_modes, active_symbols, live_configs, positions,
                   composed, start_orders, faults, balance, tickers, emas, grid,
                   fetched_positions, fetched_open_orders, ex_orders, ex_positions,
                   next_id, to_cancel, to_create, executions, tick, pnls, noisiness,
                   eligible_symbols, bot, markets_dict, ex_markets, ignored_symbols, now,
                   prev_minute, recent_fill, history, restarts, maintainers, connections,
                   last_update_timestamps, maintain_thing, attempts, ex_candles, ex_fills,
                   opened, hlcs_1m, fills, trailing_prices, trail_config, upd_timestamps,
                   pnls_call, pnls_cache>>

\* update_open_orders: the exchange answers fetch_open_orders with its open orders
FetchOpenOrdersResponds ==
    /\ OpenOrdersSuspended
    /\ oo_call.at = "idle"
    /\ oo_call' = [oo_call EXCEPT !.at = "fetched", !.res = ex_orders]
    /\ UNCHANGED <<pc, fin, config, forced_modes, active_symbols, live_configs, positions,
                   composed, start_orders, faults, balance, tickers, emas, grid,
                   open_orders, fetched_positions, fetched_open_orders, ex_orders,
                   ex_positions, next_id, to_cancel, to_create, executions, tick, pnls,
                   noisiness, eligible_symbols, bot, events, markets_dict, ex_markets,
                   ignored_symbols, now, prev_minute, recent_fill, history, restarts,
                   maintainers, connections, last_update_timestamps, maintain_thing,
                   attempts, ex_candles, ex_fills, opened, hlcs_1m, fills, trailing_prices,
                   trail_config, upd_timestamps, pnls_call, pnls_cache, ws_log>>

\* update_open_orders from the response on: self.fetched_open_orders and
\* self.open_orders are rebuilt from it, the update timestamp is set
UpdateOpenOrdersFinishes ==
    /\ OpenOrdersSuspended
    /\ oo_call.at = "fetched"
    /\ fetched_open_orders' = oo_call.res
    /\ open_orders' = GroupBySymbol(oo_call.res)
    /\ upd_timestamps' = [upd_timestamps EXCEPT !["open_orders"] = now]
    /\ oo_call' = [at |-> "idle", res |-> <<>>, added |-> {}]
    /\ Finish("update_open_orders")
    /\ UNCHANGED <<pc, config, forced_modes, active_symbols, live_configs, positions,
                   composed, start_orders, faults, balance, tickers, emas, grid,
                   fetched_positions, ex_orders, ex_positions, next_id, to_cancel,
                   to_create, executions, pnls, noisiness, eligible_symbols, bot, events,
                   markets_dict, ex_markets, ignored_symbols, now, prev_minute,
                   recent_fill, history, restarts, maintainers, connections,
                   last_update_timestamps, maintain_thing, attempts, ex_candles, ex_fills,
                   opened, hlcs_1m, fills, trailing_prices, trail_config, pnls_call,
                   pnls_cache, ws_log>>

\* update_open_orders: fetch_open_orders returned False, and so does update_open_orders
OpenOrdersFetchFails ==
    /\ OpenOrdersSuspended
    /\ oo_call.at = "idle"
    /\ faults < MaxFaults
    /\ faults' = faults + 1
    /\ oo_call' = [at |-> "idle", res |-> <<>>, added |-> {}]
    /\ Fail("update_open_orders")
    /\ UNCHANGED <<pc, config, forced_modes, active_symbols, live_configs, positions,
                   composed, start_orders, balance, tickers, emas, grid, open_orders,
                   fetched_positions, fetched_open_orders, ex_orders, ex_positions,
                   next_id, to_cancel, to_create, executions, pnls, noisiness,
                   eligible_symbols, bot, events, markets_dict, ex_markets,
                   ignored_symbols, now, prev_minute, recent_fill, history, restarts,
                   maintainers, connections, last_update_timestamps, maintain_thing,
                   attempts, ex_candles, ex_fills, opened, hlcs_1m, fills, trailing_prices,
                   trail_config, upd_timestamps, pnls_call, pnls_cache, ws_log>>

\* update_positions: fetch_positions returned False; all(... for x in res)
\* raises on it, the gather and execute_to_exchange raise, run_execution_loop
\* logs the error; the other calls of the gather are not followed further
PositionsFetchFails ==
    /\ pc = "gather1"
    /\ "update_positions" \notin fin
    /\ faults < MaxFaults
    /\ faults' = faults + 1
    /\ tick' = [tick EXCEPT !.failed = @ \cup {"update_positions"},
                            !.raised = TRUE, !.done = TRUE]
    /\ oo_call' = [at |-> "idle", res |-> <<>>, added |-> {}]
    /\ pc' = "idle"
    /\ UNCHANGED <<fin, config, forced_modes, active_symbols, live_configs, positions,
                   composed, start_orders, balance, tickers, emas, grid, open_orders,
                   fetched_positions, fetched_open_orders, ex_orders, ex_positions,
                   next_id, to_cancel, to_create, executions, pnls, noisiness,
                   eligible_symbols, bot, events, markets_dict, ex_markets,
                   ignored_symbols, now, prev_minute, recent_fill, history, restarts,
                   maintainers, connections, last_update_timestamps, maintain_thing,
                   attempts, ex_candles, ex_fills, opened, hlcs_1m, fills, trailing_prices,
                   trail_config, upd_timestamps, pnls_call, pnls_cache, ws_log>>

\* update_pnls or update_tickers: the fetch returned False, and so does the update
UpdateFails(name) ==
    /\ \/ pc = "gather1" /\ name = "update_pnls"
       \/ pc = "gather2" /\ name = "update_tickers"
    /\ name \notin fin
    /\ faults < MaxFaults
    /\ faults' = faults + 1
    /\ Fail(name)
    /\ UNCHANGED <<pc, config, forced_modes, active_symbols, live_configs, positions,
                   composed, start_orders, balance, tickers, emas, grid, open_orders,
                   fetched_positions, fetched_open_orders, ex_orders, ex_positions,
                   next_id, to_cancel, to_create, executions, pnls, noisiness,
                   eligible_symbols, bot, events, markets_dict, ex_markets,
                   ignored_symbols, now, prev_minute, recent_fill, history, restarts,
                   maintainers, connections, last_update_timestamps, maintain_thing,
                   attempts, ex_candles, ex_fills, opened, hlcs_1m, fills, trailing_prices,
                   trail_config, upd_timestamps, pnls_call, pnls_cache, oo_call, ws_log>>

InitOrders == InitAsync

NextOrders ==
    \/ StartTick
    \/ FetchOpenOrdersResponds
    \/ UpdateOpenOrdersFinishes
    \/ OpenOrdersFetchFails
    \/ UpdatePositionsOk
    \/ PositionsFetchFails
    \/ \E name \in {"update_pnls", "update_tickers"} : UpdateFails(name)
    \/ \E name \in Gather1 : UpdateOther(name)
    \/ Gather1Returns
    \/ \E name \in Gather2 : UpdateMarket(name)
    \/ UpdatePBModes
    \/ Compose
    \/ \E i \in 1..2 : CancelOk(i)
    \/ \E i \in 1..2 : CancelFails(i)
    \/ CancellationsReturn
    \/ \E i \in 1..2 : CreateOk(i)
    \/ \E i \in 1..2 : CreateFails(i)
    \/ CreationsReturn
    \/ \E order \in PlacedOrders : OrderPlaced(order)
    \/ \E i \in 1..3 : OrderExpires(i)
    \/ \E i \in 1..3 : HandleOrderOpen(i)
    \/ HandleOrderCanceled

SpecOrders == InitOrders /\ [][NextOrders]_vars

UniqueIds(oo) ==
    \A s \in Symbols : \A i, j \in DOMAIN oo[s] : oo[s][i].id = oo[s][j].id => i = j

\* the results of the batch that is about to be applied
BatchResults == {executions[i].result : i \in {k \in DOMAIN executions :
                                                  executions[k].status = "done"}}

\* C34: open_orders never holds two orders of a symbol with the same id; a
\* websocket "open" for an id that is present, a websocket "canceled" for an
\* id that is absent, and the POST responses of a batch whose ids are all
\* present (creations) or all absent (cancellations) leave open_orders as it was
C34_UniqueIds ==
    [][/\ UniqueIds(open_orders')
       /\ Len(ws_log') > Len(ws_log) =>
            \A e \in {ws_log'[Len(ws_log')]} :
                (\/ e.status = "open" /\ e.present
                 \/ e.status = "canceled" /\ ~e.present) => open_orders' = open_orders
       /\ (pc = "creating" /\ pc' = "idle"
             /\ \A r \in BatchResults : r.id \in OrderIds(r.symbol)) =>
            open_orders' = open_orders
       /\ (pc = "cancelling" /\ pc' = "creating"
             /\ \A r \in BatchResults : r = NoResult \/ r.id \notin OrderIds(r.symbol)) =>
            open_orders' = open_orders]_vars

\* the websocket delivered "open" for an order the POST response had added
\* and "canceled" for an order the POST response had removed
C34_Witness ==
    /\ \E i \in DOMAIN ws_log : ws_log[i].status = "open" /\ ws_log[i].present
    /\ \E i \in DOMAIN ws_log : ws_log[i].status = "canceled" /\ ~ws_log[i].present
    /\ UniqueIds(open_orders)

\* C35 as stated: an order that is on the exchange and that a websocket
\* "open" added to open_orders while update_open_orders was suspended is in
\* open_orders when update_open_orders has finished
C35_AsStated ==
    [][(oo_call.at = "fetched" /\ oo_call'.at = "idle") =>
          \A id \in oo_call.added :
              OnExchange(id) => \E s \in Symbols : id \in {x.id : x \in Range(open_orders'[s])}]_vars

\* C36 as stated: a tick one of whose refreshes failed dispatches no
\* cancellation and no creation
C36_AsStated ==
    tick.failed # {} => tick.sent_cancel = <<>> /\ tick.sent_create = <<>>

\* C37 as stated: when a fetch of a refresh fails the update returns False
\* without raising, and open_orders, positions, balance, tickers and the
\* update timestamps stay as they were
C37_AsStated ==
    [][(pc \in {"gather1", "gather2"} /\ faults' = faults + 1) =>
          /\ ~tick'.raised
          /\ open_orders' = open_orders
          /\ positions' = positions
          /\ balance' = balance
          /\ tickers' = tickers
          /\ upd_timestamps' = upd_timestamps]_vars

\* C38: execute_to_exchange is started only while no execute_to_exchange is
\* running, and never in the minute in which the previous one was started,
\* whether that one returned in time, overran the minute or raised
C38_OncePerMinute ==
    [][history'.running > history.running =>
          /\ history.running = 0
          /\ history'.running = 1
          /\ history'.started # history.started
          /\ history'.started = now_minute]_vars

\* a tick has raised, a later tick ran past a whole minute, and the loop polls
C38_Witness ==
    /\ pc = "poll"
    /\ history.errors > 0
    /\ history.started >= 0
    /\ now_minute > history.started + 1

\* C39 as stated: when calc_ideal_orders is about to run, every active symbol
\* has on both sides a mode and a wallet_exposure_limit written by the
\* update_PB_modes of this tick
C39_AsStated ==
    pc = "compose" =>
        \A s \in Range(active_symbols) : \A pside \in PSideSet :
            /\ live_configs[s][pside].mode # "unset"
            /\ <<s, pside>> \in tick.limits_set

\* C39: when calc_ideal_orders is about to run, every active symbol has on
\* both sides the mode the update_PB_modes of this tick wrote, whatever the
\* market-info maintainer rebuilt during the refresh phase; the
\* wallet_exposure_limit was written by this tick on the sides on which the
\* symbol is in is_active, and on the other sides it is the one
\* set_live_configs or an earlier tick left
C39_Modes ==
    pc = "compose" =>
        /\ "update_PB_modes" \in tick.refreshed
        /\ \A s \in Range(active_symbols) : \A pside \in PSideSet :
             /\ live_configs[s][pside].mode # "unset"
             /\ live_configs[s][pside].mode = NewMode(s, pside)
             /\ s \in is_active(pside) <=> <<s, pside>> \in tick.limits_set

\* calc_ideal_orders is about to run in a tick during whose refresh phase the
\* maintainer rebuilt live_configs, with an active symbol that is not in
\* is_active on one side
C39_Witness ==
    /\ pc = "compose"
    /\ tick.rebuilt
    /\ \E s \in Range(active_symbols) : \E pside \in PSideSet : s \notin is_active(pside)

====
